---- MODULE Spec2Model ----
(***************************************************************************)
(* Model of the chatBot service: the Redis session store                   *)
(* (storage/session_store.py), the streaming chat handler                  *)
(* (api/endpoints.py, services/llm_service.py), the owner-scoped           *)
(* retriever (storage/vector_store.py), the generation request             *)
(* (core/chains.py, services/llm_service.py) and the knowledge upload      *)
(* (api/endpoints.py, services/ocr_service.py, storage/vector_store.py).   *)
(***************************************************************************)
EXTENDS Integers, Sequences, FiniteSets, TLC

(***************************************************************************)
(* Bounds of the model and constants of the program.                       *)
(***************************************************************************)
\* LTRIM keeps the last 20 entries (session_store.py:183).
Cap == 20
\* get_history reads the last 6 messages (session_store.py:152).
HistoryLimit == 6
\* Messages pushed to one session's list while the list key lives, in SpecCap.
MaxCalls == 22
\* The same, in Spec (where sessions are also created, deleted and expire).
MaxPush == 2
\* The session TTL, counted in clock ticks.
TtlTicks == 2

Sessions == {"s1", "s2"}
\* The sessions that receive messages in SpecCap.
LoadedSessions == {"s1"}
Tasks == {"t1", "t2"}
\* Limits a caller passes to get_session_messages.
Limits == {0, HistoryLimit, Cap + 2}

None == "None"
\* The value of an info key that does not exist (GET returns None).
NoInfo == [message_count |-> -1]
NoExpiry == 0
\* No get_session_messages call returned in this step.
NoRead == [limit |-> -1, result |-> <<>>]
\* stream_generator has caught no exception.
NoError == <<>>
\* The coroutines that serve chat turns.
Handlers == {"t1"}
\* The dependencies of the service.
Dependencies == {"inference", "index", "store"}
\* No chat request has been answered.
NoRequest == [n |-> 0, sid |-> None, store_ok |-> FALSE, outcome |-> None]
\* No health report has been made.
NoReport == [n |-> 0, endpoint |-> None, status |-> None,
             components |-> [d \in {} |-> FALSE], ready |-> [d \in {} |-> FALSE]]
\* MilvusVectorStore._store is None.
NoStore == 0
\* No add_message call has been made.
NoAdd == [sid |-> None, n |-> 0, persisted |-> FALSE, raised |-> FALSE]
\* No delete_session call has returned.
NoSessionDelete == [sid |-> None, n |-> 0, status |-> 0, raised |-> FALSE]
\* No get_session call has returned.
NoSessionRead == [sid |-> None, n |-> 0, found |-> FALSE, status |-> 0, raised |-> FALSE]

VARIABLES
    client,     \* session_store.client is connected
    info,       \* Redis: session:info:<id> -> the SessionInfo record, or None
    infoTtl,    \* Redis: remaining lifetime of the info key, NoExpiry if none
    msgs,       \* Redis: session:msgs:<id> -> the list (absent when empty)
    msgsTtl,    \* Redis: remaining lifetime of the list key
    pc,         \* each coroutine's position
    tsid,       \* the session a coroutine works on
    tjson,      \* update_session_activity's session_data_json
    observed,   \* what the get_session_messages call of this step returned
    log,        \* history: every message pushed since the list key last appeared
    hpc,        \* stream_generator: position of each chat turn's generator
    cph,        \* the RAG chain's stage for the turn
    question,   \* request.message
    history,    \* the chat_history handed to the chain
    full_response,  \* stream_generator's accumulated answer
    found_sources,  \* stream_generator's found_sources
    stream,     \* the events the generator has yielded to the response
    herr,       \* the exception caught by stream_generator, NoError if none
    upstream,   \* chat_stream's HTTP stream to the inference endpoint
    nchunks,    \* model fragments the chain has produced in the turn
    appended,   \* history: the messages the turn has pushed to the store
    answerFrags, \* history: the AnswerGenerator fragments produced, in order
    llmFailed,  \* history: the inference call of the turn failed
    scope,      \* get_retriever's user_id_card argument
    hits,       \* the chunks the configured search returned
    rpc,        \* the retrieval's position
    rexpr,      \* search_kwargs["expr"] of the configured search, NoExpr if unset
    rvia,       \* who asked for the retriever: "get_retriever" or "chat"
    auxFrags,   \* history: the non-empty fragments of auxiliary model runs
    sread,      \* the outcome of the last session read, NoSessionRead if none
    lines,      \* chat_stream: the lines of the upstream response, in arrival order
    lpos,       \* chat_stream: how many of them aiter_lines has delivered
    yielded,    \* chat_stream: the fragments it has yielded
    lpc,        \* chat_stream: position ("none", "reading", "ended")
    pquestion,  \* get_rag_prompt_messages: question
    phist,      \* get_rag_prompt_messages: chat_history
    pdocs,      \* get_rag_prompt_messages: reordered_docs
    pcontext,   \* get_rag_prompt_messages: context_str
    pmsgs,      \* get_rag_prompt_messages: final_messages
    payload,    \* chat_stream: payload["messages"] sent to the inference endpoint
    ppc,        \* the generation request's position
    pquery,     \* get_rag_prompt_messages: the query handed to the retriever
    pcalls,     \* history: the generation calls of the turn, by purpose
    files,      \* upload_knowledge_file: the submitted files
    user_id,    \* upload_knowledge_file: the user_id form field
    uploaded_details, \* upload_knowledge_file: names of the accepted files
    failed_files,     \* upload_knowledge_file: the rejected files with reasons
    tasks,      \* background_tasks: the queued _background_pipeline calls
    disk,       \* the files present in scratch storage
    index,      \* the chunks written to the vector index
    bcur,       \* BackgroundTasks: the task being run (0 before the first)
    bpc,        \* _background_pipeline: position of the running task
    generated_md_path, \* _background_pipeline: generated_md_path
    markdown,   \* _background_pipeline: markdown_content
    ended,      \* history: the tasks whose pipeline has terminated
    indexed,    \* history: index_documents has been called
    sdel,       \* the outcome of the last DELETE /sessions/{id}, NoSessionDelete if none
    sadd,       \* the outcome of the last add_message call, NoAdd if none
    conns,      \* pymilvus connections: the aliases that have a connection
    vstore,     \* MilvusVectorStore._store, NoStore if None
    mlock,      \* MilvusVectorStore._lock: the coroutine holding it, None if free
    mpc,        \* index_markdown_content: each coroutine's position
    nconn,      \* history: successful connections.connect calls
    nstore,     \* history: Milvus handles constructed
    mused,      \* history: the handle each coroutine last wrote through
    muses,      \* history: index_markdown_content calls started
    mfail,      \* history: connection attempts that failed
    is_ready, \* llm_service.is_ready
    hreport, \* the last health report, NoReport if none
    rcands, \* rerank: docs, the candidates in search order
    rout, \* rerank: the documents returned
    rcalls, \* history: model.predict invocations
    kpc, \* rerank: position ("none", "called", "returned")
    deps, \* which of the three dependencies answer (environment)
    phase, \* lifespan: the startup step reached, "serving" after the yield
    rag_ok, \* lifespan: rag_service.initialize returned
    req, \* the outcome of the last chat request, NoRequest if none
    tpos, \* _streaming_handler: how far each request's turn has got
    slog, \* the stored message list being converted
    viaStore, \* what SessionStore.get_history returned
    viaChain, \* what format_history_for_prompt returned
    cdone \* the conversions made so far

storeVars == <<client, info, infoTtl, msgs, msgsTtl, pc, tsid, tjson, observed,
               log>>
storeVarsButObserved == <<client, info, infoTtl, msgs, msgsTtl, pc, tsid, tjson, log>>
chatVars == <<hpc, cph, question, history, full_response, found_sources, stream,
              herr, upstream, nchunks, appended, answerFrags, llmFailed>>
retrVars == <<scope, hits, rpc, rexpr, rvia>>
auxVars == <<auxFrags>>
readVars == <<sread>>
\* What the store and the chat turn leave alone.
lineVars == <<lines, lpos, yielded, lpc>>
promptVars == <<pquestion, phist, pdocs, pcontext, pmsgs, payload, ppc, pquery,
                pcalls>>
ingestVars == <<files, user_id, uploaded_details, failed_files, tasks, disk, index,
                bcur, bpc, generated_md_path, markdown, ended, indexed>>
delVars == <<sdel>>
addVars == <<sadd>>
milvusVars == <<conns, vstore, mlock, mpc, nconn, nstore, mused, muses, mfail>>
healthVars == <<is_ready, hreport>>
rerankVars == <<rcands, rout, rcalls, kpc>>
startVars == <<deps, phase, rag_ok, req>>
turnVars == <<tpos>>
histVars == <<slog, viaStore, viaChain, cdone>>
sideVars == <<retrVars, auxVars, readVars, lineVars, promptVars, ingestVars, delVars, addVars, milvusVars, healthVars, rerankVars, startVars, turnVars, histVars>>
sideButRetr == <<auxVars, readVars, lineVars, promptVars, ingestVars, delVars, addVars, milvusVars, healthVars, rerankVars, startVars, turnVars, histVars>>
sideButAux == <<retrVars, readVars, lineVars, promptVars, ingestVars, delVars, addVars, milvusVars, healthVars, rerankVars, startVars, turnVars, histVars>>
sideButRead == <<retrVars, auxVars, lineVars, promptVars, ingestVars, delVars, addVars, milvusVars, healthVars, rerankVars, startVars, turnVars, histVars>>
sideButLines == <<retrVars, auxVars, readVars, promptVars, ingestVars, delVars, addVars, milvusVars, healthVars, rerankVars, startVars, turnVars, histVars>>
sideButPrompt == <<retrVars, auxVars, readVars, lineVars, ingestVars, delVars, addVars, milvusVars, healthVars, rerankVars, startVars, turnVars, histVars>>
sideButIngest == <<retrVars, auxVars, readVars, lineVars, promptVars, delVars, addVars, milvusVars, healthVars, rerankVars, startVars, turnVars, histVars>>
sideButDel == <<retrVars, auxVars, readVars, lineVars, promptVars, ingestVars, addVars, milvusVars, healthVars, rerankVars, startVars, turnVars, histVars>>
sideButAdd == <<retrVars, auxVars, readVars, lineVars, promptVars, ingestVars, delVars, milvusVars, healthVars, rerankVars, startVars, turnVars, histVars>>
sideButMilvus == <<retrVars, auxVars, readVars, lineVars, promptVars, ingestVars, delVars, addVars, healthVars, rerankVars, startVars, turnVars, histVars>>
sideButHealth == <<retrVars, auxVars, readVars, lineVars, promptVars, ingestVars, delVars, addVars, milvusVars, rerankVars, startVars, turnVars, histVars>>
sideButRerank == <<retrVars, auxVars, readVars, lineVars, promptVars, ingestVars, delVars, addVars, milvusVars, healthVars, startVars, turnVars, histVars>>
sideButStart == <<retrVars, auxVars, readVars, lineVars, promptVars, ingestVars, delVars, addVars, milvusVars, healthVars, rerankVars, turnVars, histVars>>
sideButTurn == <<retrVars, auxVars, readVars, lineVars, promptVars, ingestVars, delVars, addVars, milvusVars, healthVars, rerankVars, startVars, histVars>>
sideButHist == <<retrVars, auxVars, readVars, lineVars, promptVars, ingestVars, delVars, addVars, milvusVars, healthVars, rerankVars, startVars, turnVars>>

(***************************************************************************)
(* Redis list commands, with Redis' index rules: a negative index counts   *)
(* from the tail, an out-of-range stop is clamped, start > stop is empty.  *)
(***************************************************************************)
RPush(list, m) == Append(list, m)

LRange(list, start, stop) ==
    LET n  == Len(list)
        s0 == IF start < 0 THEN n + start ELSE start
        e0 == IF stop < 0 THEN n + stop ELSE stop
        s  == IF s0 < 0 THEN 0 ELSE s0
        e  == IF e0 >= n THEN n - 1 ELSE e0
    IN  IF s > e \/ s >= n THEN <<>> ELSE SubSeq(list, s + 1, e + 1)

LTrim(list, start, stop) == LRange(list, start, stop)

\* EXPIRE: sets the lifetime of a key that exists, does nothing otherwise.
Expire(exists, old, ttl) == IF exists THEN ttl ELSE old

(***************************************************************************)
(* SessionStore                                                            *)
(***************************************************************************)
\* ChatMessage(role=role, content=content) as stored in the list.
ChatMessage(role, content) == [role |-> role, content |-> content]

\* The role the n-th message of a conversation carries.
RoleOf(n) == IF n % 2 = 1 THEN "user" ELSE "assistant"

\* add_message's MULTI/EXEC pipeline trimming to the wrong end of the list.
PushAndTrimHead(list, m) == LTrim(RPush(list, m), 0, Cap - 1)

\* add_message's MULTI/EXEC pipeline pushing without the trim.
PushNoTrim(list, m) == RPush(list, m)

\* add_message's MULTI/EXEC pipeline: rpush, then ltrim(-20, -1).
PushAndTrim(list, m) == LTrim(RPush(list, m), -Cap, -1)

Connect ==
    /\ ~client
    /\ client' = TRUE
    /\ UNCHANGED <<info, infoTtl, msgs, msgsTtl, pc, tsid, tjson, log>>
    /\ observed' = NoRead
    /\ UNCHANGED <<chatVars, sideVars>>

\* add_message up to the first round trip: the guard, the message, the pipeline.
AddMessage(t, s, bound) ==
    /\ pc[t] = "idle"
    /\ Len(log[s]) < bound
    /\ info[s].message_count < bound
    /\ \A u \in Tasks : tjson[u].message_count < bound
    /\ LET m == ChatMessage(RoleOf(Len(log[s]) + 1), Len(log[s]) + 1)
       IN  IF ~client
           THEN UNCHANGED <<msgs, log, pc, tsid>>
           ELSE /\ msgs' = [msgs EXCEPT ![s] = PushAndTrim(@, m)]
                /\ log' = [log EXCEPT ![s] = Append(@, m)]
                /\ pc' = [pc EXCEPT ![t] = "upd_get"]
                /\ tsid' = [tsid EXCEPT ![t] = s]
    /\ UNCHANGED <<client, info, infoTtl, msgsTtl, tjson>>
    /\ observed' = NoRead
    /\ UNCHANGED <<chatVars, sideVars>>

\* update_session_activity: GET of the info key.
UpdGet(t) ==
    /\ pc[t] = "upd_get"
    /\ tjson' = [tjson EXCEPT ![t] = info[tsid[t]]]
    /\ pc' = [pc EXCEPT ![t] = "upd_exec"]
    /\ UNCHANGED <<client, info, infoTtl, msgs, msgsTtl, tsid, log>>
    /\ observed' = NoRead
    /\ UNCHANGED <<chatVars, sideVars>>

\* update_session_activity: the pipeline SET (if the record was read), EXPIRE, EXPIRE.
UpdExec(t) ==
    LET s   == tsid[t]
        new == IF tjson[t] # NoInfo
               THEN [message_count |-> tjson[t].message_count + 1]
               ELSE info[s]
        ttl0 == IF tjson[t] # NoInfo THEN NoExpiry ELSE infoTtl[s]
    IN  /\ pc[t] = "upd_exec"
        /\ info' = [info EXCEPT ![s] = new]
        /\ infoTtl' = [infoTtl EXCEPT ![s] = Expire(new # NoInfo, ttl0, TtlTicks)]
        /\ msgsTtl' = [msgsTtl EXCEPT ![s] = Expire(msgs[s] # <<>>, @, TtlTicks)]
        /\ pc' = [pc EXCEPT ![t] = "idle"]
        /\ tjson' = [tjson EXCEPT ![t] = NoInfo]
        /\ UNCHANGED <<client, msgs, tsid, log>>
        /\ observed' = NoRead
        /\ UNCHANGED <<chatVars, sideVars>>

\* get_session_messages(session_id, limit): LRANGE(-limit, -1).
GetSessionMessages(t, s, limit) ==
    /\ pc[t] = "idle"
    /\ observed' = [limit |-> limit,
                    result |-> IF client THEN LRange(msgs[s], -limit, -1) ELSE <<>>]
    /\ UNCHANGED <<chatVars, sideVars>>
    /\ UNCHANGED <<client, info, infoTtl, msgs, msgsTtl, pc, tsid, tjson, log>>

\* get_or_create_session: get_session's GET; a found session is returned as it is.
GetOrCreateGet(t, s) ==
    /\ pc[t] = "idle"
    /\ client
    /\ info[s] = NoInfo
    /\ pc' = [pc EXCEPT ![t] = "create"]
    /\ tsid' = [tsid EXCEPT ![t] = s]
    /\ UNCHANGED <<client, info, infoTtl, msgs, msgsTtl, tjson, log>>
    /\ observed' = NoRead
    /\ UNCHANGED <<chatVars, sideVars>>

\* create_session: the pipeline SET, EXPIRE, DEL of the list.
CreateExec(t) ==
    LET s == tsid[t]
    IN  /\ pc[t] = "create"
        /\ info' = [info EXCEPT ![s] = [message_count |-> 0]]
        /\ infoTtl' = [infoTtl EXCEPT ![s] = TtlTicks]
        /\ msgs' = [msgs EXCEPT ![s] = <<>>]
        /\ msgsTtl' = [msgsTtl EXCEPT ![s] = NoExpiry]
        /\ log' = [log EXCEPT ![s] = <<>>]
        /\ pc' = [pc EXCEPT ![t] = "idle"]
        /\ UNCHANGED <<client, tsid, tjson>>
        /\ observed' = NoRead
        /\ UNCHANGED <<chatVars, sideVars>>

\* delete_session: the pipeline DEL, DEL.
DeleteSession(t, s) ==
    /\ pc[t] = "idle"
    /\ client
    /\ info' = [info EXCEPT ![s] = NoInfo]
    /\ infoTtl' = [infoTtl EXCEPT ![s] = NoExpiry]
    /\ msgs' = [msgs EXCEPT ![s] = <<>>]
    /\ msgsTtl' = [msgsTtl EXCEPT ![s] = NoExpiry]
    /\ log' = [log EXCEPT ![s] = <<>>]
    /\ UNCHANGED <<client, pc, tsid, tjson>>
    /\ observed' = NoRead
    /\ UNCHANGED <<chatVars, sideVars>>

\* One clock tick in Redis: lifetimes run down and a key at its end is removed.
Tick ==
    /\ \E s \in Sessions : infoTtl[s] # NoExpiry \/ msgsTtl[s] # NoExpiry
    /\ info' = [s \in Sessions |-> IF infoTtl[s] = 1 THEN NoInfo ELSE info[s]]
    /\ infoTtl' = [s \in Sessions |-> IF infoTtl[s] = NoExpiry THEN NoExpiry ELSE infoTtl[s] - 1]
    /\ msgs' = [s \in Sessions |-> IF msgsTtl[s] = 1 THEN <<>> ELSE msgs[s]]
    /\ msgsTtl' = [s \in Sessions |-> IF msgsTtl[s] = NoExpiry THEN NoExpiry ELSE msgsTtl[s] - 1]
    /\ log' = [s \in Sessions |-> IF msgsTtl[s] = 1 THEN <<>> ELSE log[s]]
    /\ UNCHANGED <<client, pc, tsid, tjson>>
    /\ observed' = NoRead
    /\ UNCHANGED <<chatVars, sideVars>>

ChatIdle ==
    /\ hpc = [h \in Handlers |-> "new"]
    /\ cph = [h \in Handlers |-> "none"]
    /\ question = [h \in Handlers |-> <<>>]
    /\ history = [h \in Handlers |-> <<>>]
    /\ full_response = [h \in Handlers |-> <<>>]
    /\ found_sources = [h \in Handlers |-> {}]
    /\ stream = [h \in Handlers |-> <<>>]
    /\ herr = [h \in Handlers |-> NoError]
    /\ upstream = [h \in Handlers |-> "none"]
    /\ nchunks = [h \in Handlers |-> 0]
    /\ appended = [h \in Handlers |-> <<>>]
    /\ answerFrags = [h \in Handlers |-> <<>>]
    /\ llmFailed = [h \in Handlers |-> FALSE]

RetrIdle ==
    /\ scope = <<>>
    /\ hits = {}
    /\ rpc = "none"
    /\ rexpr = <<>>
    /\ rvia = "none"

\* No auxiliary fragment seen, no session read made.
SideIdle ==
    /\ auxFrags = [h \in Handlers |-> <<>>]
    /\ sread = NoSessionRead

\* chat_stream has not been called.
LinesIdle ==
    /\ lines = <<>>
    /\ lpos = 0
    /\ yielded = <<>>
    /\ lpc = "none"

\* No generation request is being built.
PromptIdle ==
    /\ pquestion = <<>>
    /\ phist = <<>>
    /\ pdocs = <<>>
    /\ pcontext = <<>>
    /\ pmsgs = <<>>
    /\ payload = <<>>
    /\ ppc = "none"
    /\ pquery = <<>>
    /\ pcalls = <<>>

\* Nothing uploaded, nothing indexed, scratch storage empty.
IngestIdle ==
    /\ files = <<>>
    /\ user_id = None
    /\ uploaded_details = <<>>
    /\ failed_files = <<>>
    /\ tasks = <<>>
    /\ disk = {}
    /\ index = {}
    /\ bcur = 0
    /\ bpc = "none"
    /\ generated_md_path = None
    /\ markdown = <<>>
    /\ ended = {}
    /\ indexed = FALSE

\* No session delete has been requested.
DelIdle ==
    sdel = NoSessionDelete

\* No add_message call has been made.
AddIdle ==
    /\ sadd = NoAdd

\* No ingestion task has touched the vector index.
MilvusIdle ==
    /\ conns = {}
    /\ vstore = NoStore
    /\ mlock = None
    /\ mpc = [t \in Tasks |-> "idle"]
    /\ nconn = 0
    /\ nstore = 0
    /\ mused = [t \in Tasks |-> NoStore]
    /\ muses = 0
    /\ mfail = 0

\* The inference endpoint has not been probed, no health report made.
HealthIdle ==
    /\ is_ready = FALSE
    /\ hreport = NoReport

\* rerank has not been called.
RerankIdle ==
    /\ rcands = <<>>
    /\ rout = <<>>
    /\ rcalls = 0
    /\ kpc = "none"

\* The application has not started, no chat request was made.
StartIdle ==
    /\ deps = [d \in Dependencies |-> TRUE]
    /\ phase = "none"
    /\ rag_ok = FALSE
    /\ req = NoRequest

\* No chat turn has started.
TurnIdle ==
    /\ tpos = [t \in Tasks |-> "none"]

\* No history has been converted.
HistIdle ==
    /\ slog = <<>>
    /\ viaStore = <<>>
    /\ viaChain = <<>>
    /\ cdone = {}

Init ==
    /\ ChatIdle
    /\ RetrIdle
    /\ SideIdle
    /\ LinesIdle
    /\ PromptIdle
    /\ IngestIdle
    /\ DelIdle
    /\ AddIdle
    /\ MilvusIdle
    /\ HealthIdle
    /\ RerankIdle
    /\ StartIdle
    /\ TurnIdle
    /\ HistIdle
    /\ client = FALSE
    /\ info = [s \in Sessions |-> NoInfo]
    /\ infoTtl = [s \in Sessions |-> NoExpiry]
    /\ msgs = [s \in Sessions |-> <<>>]
    /\ msgsTtl = [s \in Sessions |-> NoExpiry]
    /\ pc = [t \in Tasks |-> "idle"]
    /\ tsid = [t \in Tasks |-> None]
    /\ tjson = [t \in Tasks |-> NoInfo]
    /\ observed = NoRead
    /\ log = [s \in Sessions |-> <<>>]

Next ==
    \/ Connect
    \/ Tick
    \/ \E t \in Tasks, s \in Sessions : AddMessage(t, s, MaxPush)
    \/ \E t \in Tasks : UpdGet(t)
    \/ \E t \in Tasks : UpdExec(t)
    \/ \E t \in Tasks, s \in Sessions, limit \in Limits : GetSessionMessages(t, s, limit)
    \/ \E t \in Tasks, s \in Sessions : GetOrCreateGet(t, s)
    \/ \E t \in Tasks : CreateExec(t)
    \/ \E t \in Tasks, s \in Sessions : DeleteSession(t, s)

vars == <<storeVars, chatVars, sideVars>>

Spec == Init /\ [][Next]_vars

(***************************************************************************)
(* SpecCap: add_message and get_session_messages calls only, on a          *)
(* connected store, long enough for the list to pass its cap.              *)
(***************************************************************************)
InitCap ==
    /\ ChatIdle
    /\ RetrIdle
    /\ SideIdle
    /\ LinesIdle
    /\ PromptIdle
    /\ IngestIdle
    /\ DelIdle
    /\ AddIdle
    /\ MilvusIdle
    /\ HealthIdle
    /\ RerankIdle
    /\ StartIdle
    /\ TurnIdle
    /\ HistIdle
    /\ client = TRUE
    /\ info \in [Sessions -> {NoInfo, [message_count |-> 0]}]
    /\ infoTtl = [s \in Sessions |-> IF info[s] = NoInfo THEN NoExpiry ELSE TtlTicks]
    /\ msgs = [s \in Sessions |-> <<>>]
    /\ msgsTtl = [s \in Sessions |-> NoExpiry]
    /\ pc = [t \in Tasks |-> "idle"]
    /\ tsid = [t \in Tasks |-> None]
    /\ tjson = [t \in Tasks |-> NoInfo]
    /\ observed = NoRead
    /\ log = [s \in Sessions |-> <<>>]

NextCap ==
    \/ \E t \in Tasks, s \in LoadedSessions : AddMessage(t, s, MaxCalls)
    \/ \E t \in Tasks : UpdGet(t)
    \/ \E t \in Tasks : UpdExec(t)
    \/ \E t \in Tasks, s \in Sessions, limit \in Limits : GetSessionMessages(t, s, limit)

SpecCap == InitCap /\ [][NextCap]_vars

(***************************************************************************)
(* The streaming chat turn: _streaming_handler and its stream_generator    *)
(* (api/endpoints.py), fed by the RAG chain's event stream and by          *)
(* LLMService.chat_stream (services/llm_service.py).  A text is a sequence *)
(* of tokens; concatenation of texts is \o.                                *)
(***************************************************************************)
\* Model fragments the chain produces in one turn.
MaxChunks == 2

Questions == {<<"q">>}
\* The content of a streamed chunk; the empty text is an empty chunk.
Frags == {<<>>, <<"a">>, <<"b">>}
\* The retriever's output: the source of each document found.
DocSets == {<<>>, <<"handbook.md">>, <<"handbook.md", "faq.md">>}
\* str(e) of the exceptions that reach stream_generator.
ChainError == <<"chain failed">>
StoreError == <<"redis error">>
\* chat_stream's error_msg for an HTTP error status, a timeout, any other failure.
LlmErrors == {<<"HTTP error">>, <<"timeout">>, <<"call failed">>}

StatusEvent(text) == [type |-> "status", text |-> text, data |-> {}]
ContentEvent(text) == [type |-> "content", text |-> text, data |-> {}]
SourcesEvent(srcs) == [type |-> "sources", text |-> <<>>, data |-> srcs]
ErrorEvent(text) == [type |-> "error", text |-> text, data |-> {}]
DoneEvent == [type |-> "done", text |-> <<>>, data |-> {}]

Range(seq) == {seq[i] : i \in 1..Len(seq)}

\* get_history: the last 6 stored messages as LangChain messages, by role.
LcMessage(m) ==
    IF m.role \in {"user", "human"} THEN [type |-> "human", content |-> m.content]
    ELSE [type |-> "ai", content |-> m.content]
GetHistory(list) ==
    LET kept == SelectSeq(LRange(list, -HistoryLimit, -1),
                          LAMBDA m : m.role \in {"user", "human", "assistant", "ai", "model"})
    IN  [i \in 1..Len(kept) |-> LcMessage(kept[i])]

\* on_chat_model_stream accumulating every run's fragments, whatever its name.
AccumulateAnyRun(full, name, c) == full \o c

\* on_chat_model_stream: what becomes of full_response.
Accumulate(full, name, c) ==
    IF c = <<>> THEN full
    ELSE IF name = "QuestionRewriter" THEN full
    ELSE IF name = "AnswerGenerator" THEN full \o c
    ELSE full

\* on_chat_model_stream yielding a content event for every run's fragment.
ModelStreamEventsAnyRun(name, c) == IF c # <<>> THEN <<ContentEvent(c)>> ELSE <<>>

\* on_chat_model_stream: the events yielded for one fragment.
ModelStreamEvents(name, c) ==
    IF c # <<>> /\ name = "AnswerGenerator" THEN <<ContentEvent(c)>> ELSE <<>>

\* The two add_message calls of step 5, assistant first.
TurnMessagesSwapped(q, answer) == <<ChatMessage("ai", answer), ChatMessage("human", q)>>

\* The two add_message calls of step 5, in call order.
TurnMessages(q, answer) == <<ChatMessage("human", q), ChatMessage("ai", answer)>>

\* chat_stream leaving its HTTP stream open when its generator is closed.
ReleaseNever(up) == up

\* chat_stream's "async with self.client.stream(...)": leaving the block, by
\* the end of the stream, an exception or the generator's close, releases it.
Release(up) == IF up = "open" THEN "closed" ELSE up

\* The chain's first stage: the question is rewritten only when there is history.
ChainFirstStage(hist) == IF hist # <<>> THEN "rewrite" ELSE "retr_start"

\* The chain's stages in order: rewriting, retrieval, generation, end.
ChainStageAfter(stage) ==
    CASE stage = "rewrite" -> "retr_start"
      [] stage = "retr_start" -> "retr_end"
      [] stage = "retr_end" -> "answer_open"
      [] stage = "answer_open" -> "answer"
      [] OTHER -> "end"

\* _streaming_handler up to the StreamingResponse: the session exists, so
\* _prepare_session changes nothing, and get_history reads the last 6 messages.
Request(h, s, q) ==
    /\ hpc[h] = "new"
    /\ client
    /\ info[s] # NoInfo
    /\ hpc' = [hpc EXCEPT ![h] = "status0"]
    /\ question' = [question EXCEPT ![h] = q]
    /\ history' = [history EXCEPT ![h] = GetHistory(msgs[s])]
    /\ tsid' = [tsid EXCEPT ![h] = s]
    /\ observed' = NoRead
    /\ UNCHANGED <<client, info, infoTtl, msgs, msgsTtl, pc, tjson, log>>
    /\ UNCHANGED <<cph, full_response, found_sources, stream, herr, upstream,
                   nchunks, appended, answerFrags, llmFailed, sideVars>>

\* The first yield, then get_rag_chain() and the start of astream_events.
EmitInitialStatus(h) ==
    /\ hpc[h] = "status0"
    /\ stream' = [stream EXCEPT ![h] = Append(@, StatusEvent(<<"Understanding context...">>))]
    /\ hpc' = [hpc EXCEPT ![h] = "loop"]
    /\ cph' = [cph EXCEPT ![h] = ChainFirstStage(history[h])]
    /\ observed' = NoRead
    /\ UNCHANGED <<client, info, infoTtl, msgs, msgsTtl, pc, tsid, tjson, log>>
    /\ UNCHANGED <<question, history, full_response, found_sources, herr, upstream,
                   nchunks, appended, answerFrags, llmFailed, sideVars>>

\* One on_chat_model_stream event handled by the loop body.
OnChatModelStream(h, name, c) ==
    /\ full_response' = [full_response EXCEPT ![h] = Accumulate(@, name, c)]
    /\ stream' = [stream EXCEPT ![h] = @ \o ModelStreamEvents(name, c)]
    /\ nchunks' = [nchunks EXCEPT ![h] = @ + 1]
    /\ answerFrags' = [answerFrags EXCEPT ![h] =
                          IF name = "AnswerGenerator" /\ c # <<>> THEN Append(@, c) ELSE @]

\* A fragment of an auxiliary run: the question rewriter, or another model run.
AuxChunk(h, name, c) ==
    /\ hpc[h] = "loop"
    /\ cph[h] = "rewrite"
    /\ nchunks[h] < MaxChunks
    /\ OnChatModelStream(h, name, c)
    /\ auxFrags' = [auxFrags EXCEPT ![h] = IF c # <<>> THEN Append(@, c) ELSE @]
    /\ observed' = NoRead
    /\ UNCHANGED <<storeVarsButObserved, sideButAux>>
    /\ UNCHANGED <<hpc, cph, question, history, found_sources, herr, upstream,
                   appended, llmFailed>>

\* The rewriting step ends; retrieval is next.
RewriteDone(h) ==
    /\ hpc[h] = "loop"
    /\ cph[h] = "rewrite"
    /\ cph' = [cph EXCEPT ![h] = ChainStageAfter(@)]
    /\ observed' = NoRead
    /\ UNCHANGED <<storeVarsButObserved, sideVars>>
    /\ UNCHANGED <<hpc, question, history, full_response, found_sources, stream, herr,
                   upstream, nchunks, appended, answerFrags, llmFailed>>

\* on_retriever_start.
RetrieverStart(h) ==
    /\ hpc[h] = "loop"
    /\ cph[h] = "retr_start"
    /\ cph' = [cph EXCEPT ![h] = ChainStageAfter(@)]
    /\ stream' = [stream EXCEPT ![h] = Append(@, StatusEvent(<<"Searching knowledge base...">>))]
    /\ observed' = NoRead
    /\ UNCHANGED <<storeVarsButObserved, sideVars>>
    /\ UNCHANGED <<hpc, question, history, full_response, found_sources, herr,
                   upstream, nchunks, appended, answerFrags, llmFailed>>

\* on_retriever_end with the documents found.
RetrieverEnd(h, docs) ==
    /\ hpc[h] = "loop"
    /\ cph[h] = "retr_end"
    /\ cph' = [cph EXCEPT ![h] = ChainStageAfter(@)]
    /\ IF docs # <<>>
       THEN /\ found_sources' = [found_sources EXCEPT ![h] = Range(docs)]
            /\ stream' = [stream EXCEPT ![h] = Append(@, StatusEvent(<<"Found", Len(docs), "relevant docs">>))]
       ELSE UNCHANGED <<found_sources, stream>>
    /\ observed' = NoRead
    /\ UNCHANGED <<storeVarsButObserved, sideVars>>
    /\ UNCHANGED <<hpc, question, history, full_response, herr,
                   upstream, nchunks, appended, answerFrags, llmFailed>>

\* chat_stream: the request is sent and the response status is accepted.
LlmOpen(h) ==
    /\ hpc[h] = "loop"
    /\ cph[h] = "answer_open"
    /\ cph' = [cph EXCEPT ![h] = ChainStageAfter(@)]
    /\ upstream' = [upstream EXCEPT ![h] = "open"]
    /\ observed' = NoRead
    /\ UNCHANGED <<storeVarsButObserved, sideVars>>
    /\ UNCHANGED <<hpc, question, history, full_response, found_sources, stream, herr,
                   nchunks, appended, answerFrags, llmFailed>>

\* chat_stream yields a fragment, which reaches the loop as an AnswerGenerator chunk.
LlmChunk(h, c) ==
    /\ hpc[h] = "loop"
    /\ cph[h] = "answer"
    /\ nchunks[h] < MaxChunks
    /\ OnChatModelStream(h, "AnswerGenerator", c)
    /\ observed' = NoRead
    /\ UNCHANGED <<storeVarsButObserved, sideVars>>
    /\ UNCHANGED <<hpc, cph, question, history, found_sources, herr, upstream,
                   appended, llmFailed>>

\* chat_stream's except branches: the endpoint is unreachable, answers an error
\* status or times out; error_msg is yielded like a fragment and the stream ends.
LlmFail(h, msg) ==
    /\ hpc[h] = "loop"
    /\ cph[h] \in {"answer_open", "answer"}
    /\ OnChatModelStream(h, "AnswerGenerator", msg)
    /\ upstream' = [upstream EXCEPT ![h] = Release(@)]
    /\ llmFailed' = [llmFailed EXCEPT ![h] = TRUE]
    /\ cph' = [cph EXCEPT ![h] = "end"]
    /\ observed' = NoRead
    /\ UNCHANGED <<storeVarsButObserved, sideVars>>
    /\ UNCHANGED <<hpc, question, history, found_sources, herr, appended>>

\* chat_stream reads the end marker (or the end of the response).
LlmDone(h) ==
    /\ hpc[h] = "loop"
    /\ cph[h] = "answer"
    /\ upstream' = [upstream EXCEPT ![h] = Release(@)]
    /\ cph' = [cph EXCEPT ![h] = ChainStageAfter(@)]
    /\ observed' = NoRead
    /\ UNCHANGED <<storeVarsButObserved, sideVars>>
    /\ UNCHANGED <<hpc, question, history, full_response, found_sources, stream, herr,
                   nchunks, appended, answerFrags, llmFailed>>

\* An exception leaves the chain (get_rag_chain, the rewriter, the retriever).
ChainRaise(h) ==
    /\ hpc[h] = "loop"
    /\ cph[h] # "end"
    /\ herr' = [herr EXCEPT ![h] = ChainError]
    /\ hpc' = [hpc EXCEPT ![h] = "except"]
    /\ upstream' = [upstream EXCEPT ![h] = Release(@)]
    /\ observed' = NoRead
    /\ UNCHANGED <<storeVarsButObserved, sideVars>>
    /\ UNCHANGED <<cph, question, history, full_response, found_sources, stream,
                   nchunks, appended, answerFrags, llmFailed>>

\* The event stream ends: step 4 yields the sources, if any were found.
ChainEnd(h) ==
    /\ hpc[h] = "loop"
    /\ cph[h] = "end"
    /\ stream' = [stream EXCEPT ![h] =
                     IF found_sources[h] # {} THEN Append(@, SourcesEvent(found_sources[h])) ELSE @]
    /\ hpc' = [hpc EXCEPT ![h] = "save1"]
    /\ observed' = NoRead
    /\ UNCHANGED <<storeVarsButObserved, sideVars>>
    /\ UNCHANGED <<cph, question, history, full_response, found_sources, herr, upstream,
                   nchunks, appended, answerFrags, llmFailed>>

\* Step 5: add_message number k of the turn, up to its pipeline.
SaveMessage(h, k) ==
    LET m == TurnMessages(question[h], full_response[h])[k]
        s == tsid[h]
    IN  /\ hpc[h] = (IF k = 1 THEN "save1" ELSE "save2")
        /\ pc[h] = "idle"
        /\ hpc' = [hpc EXCEPT ![h] = IF k = 1 THEN "save2" ELSE "saved"]
        /\ IF ~client
           THEN UNCHANGED <<msgs, log, pc, appended>>
           ELSE /\ msgs' = [msgs EXCEPT ![s] = PushAndTrim(@, m)]
                /\ log' = [log EXCEPT ![s] = Append(@, m)]
                /\ pc' = [pc EXCEPT ![h] = "upd_get"]
                /\ appended' = [appended EXCEPT ![h] = Append(@, m)]
        /\ observed' = NoRead
        /\ UNCHANGED <<client, info, infoTtl, msgsTtl, tsid, tjson, sideVars>>
        /\ UNCHANGED <<cph, question, history, full_response, found_sources, stream, herr,
                       upstream, nchunks, answerFrags, llmFailed>>

\* A store round trip of step 5 raises.
StoreRaise(h) ==
    /\ \/ hpc[h] \in {"save1", "save2"}
       \/ hpc[h] = "saved" /\ pc[h] # "idle"
    /\ client
    /\ herr' = [herr EXCEPT ![h] = StoreError]
    /\ hpc' = [hpc EXCEPT ![h] = "except"]
    /\ pc' = [pc EXCEPT ![h] = "idle"]
    /\ tjson' = [tjson EXCEPT ![h] = NoInfo]
    /\ observed' = NoRead
    /\ UNCHANGED <<client, info, infoTtl, msgs, msgsTtl, tsid, log, sideVars>>
    /\ UNCHANGED <<cph, question, history, full_response, found_sources, stream,
                   upstream, nchunks, appended, answerFrags, llmFailed>>

\* Both add_message calls have returned: the try block ends.
SaveDone(h) ==
    /\ hpc[h] = "saved"
    /\ pc[h] = "idle"
    /\ hpc' = [hpc EXCEPT ![h] = "finally"]
    /\ observed' = NoRead
    /\ UNCHANGED <<storeVarsButObserved, sideVars>>
    /\ UNCHANGED <<cph, question, history, full_response, found_sources, stream, herr,
                   upstream, nchunks, appended, answerFrags, llmFailed>>

\* The except branch: the error event.
EmitError(h) ==
    /\ hpc[h] = "except"
    /\ stream' = [stream EXCEPT ![h] = Append(@, ErrorEvent(herr[h]))]
    /\ hpc' = [hpc EXCEPT ![h] = "finally"]
    /\ observed' = NoRead
    /\ UNCHANGED <<storeVarsButObserved, sideVars>>
    /\ UNCHANGED <<cph, question, history, full_response, found_sources, herr, upstream,
                   nchunks, appended, answerFrags, llmFailed>>

\* The finally branch: the termination sentinel.
EmitDone(h) ==
    /\ hpc[h] = "finally"
    /\ stream' = [stream EXCEPT ![h] = Append(@, DoneEvent)]
    /\ hpc' = [hpc EXCEPT ![h] = "closed"]
    /\ observed' = NoRead
    /\ UNCHANGED <<storeVarsButObserved, sideVars>>
    /\ UNCHANGED <<cph, question, history, full_response, found_sources, herr, upstream,
                   nchunks, appended, answerFrags, llmFailed>>

\* The client disconnects: the response task is cancelled and the generator is
\* closed where it stands; nothing after that point of its body runs to a yield.
Disconnect(h) ==
    /\ hpc[h] \notin {"new", "closed", "aborted"}
    /\ hpc' = [hpc EXCEPT ![h] = "aborted"]
    /\ upstream' = [upstream EXCEPT ![h] = Release(@)]
    /\ pc' = [pc EXCEPT ![h] = "idle"]
    /\ tjson' = [tjson EXCEPT ![h] = NoInfo]
    /\ observed' = NoRead
    /\ UNCHANGED <<client, info, infoTtl, msgs, msgsTtl, tsid, log, sideVars>>
    /\ UNCHANGED <<cph, question, history, full_response, found_sources, stream, herr,
                   nchunks, appended, answerFrags, llmFailed>>

\* The session exists before the turn, empty or holding one earlier turn.
PriorLogs == {<<>>, <<ChatMessage("human", <<"q0">>), ChatMessage("ai", <<"a0">>)>>}

InitChat ==
    /\ ChatIdle
    /\ RetrIdle
    /\ SideIdle
    /\ LinesIdle
    /\ PromptIdle
    /\ IngestIdle
    /\ DelIdle
    /\ AddIdle
    /\ MilvusIdle
    /\ HealthIdle
    /\ RerankIdle
    /\ StartIdle
    /\ TurnIdle
    /\ HistIdle
    /\ client = TRUE
    /\ info = [s \in Sessions |-> [message_count |-> 0]]
    /\ infoTtl = [s \in Sessions |-> TtlTicks]
    /\ msgs \in [Sessions -> PriorLogs]
    /\ msgsTtl = [s \in Sessions |-> IF msgs[s] = <<>> THEN NoExpiry ELSE TtlTicks]
    /\ pc = [t \in Tasks |-> "idle"]
    /\ tsid = [t \in Tasks |-> None]
    /\ tjson = [t \in Tasks |-> NoInfo]
    /\ observed = NoRead
    /\ log = msgs

NextChat ==
    \/ \E h \in Handlers, s \in Sessions, q \in Questions : Request(h, s, q)
    \/ \E h \in Handlers : EmitInitialStatus(h)
    \/ \E h \in Handlers, c \in Frags : AuxChunk(h, "QuestionRewriter", c)
    \/ \E h \in Handlers, c \in Frags : AuxChunk(h, "Other", c)
    \/ \E h \in Handlers : RewriteDone(h)
    \/ \E h \in Handlers : RetrieverStart(h)
    \/ \E h \in Handlers, docs \in DocSets : RetrieverEnd(h, docs)
    \/ \E h \in Handlers : LlmOpen(h)
    \/ \E h \in Handlers, c \in Frags : LlmChunk(h, c)
    \/ \E h \in Handlers, msg \in LlmErrors : LlmFail(h, msg)
    \/ \E h \in Handlers : LlmDone(h)
    \/ \E h \in Handlers : ChainRaise(h)
    \/ \E h \in Handlers : ChainEnd(h)
    \/ \E h \in Handlers, k \in {1, 2} : SaveMessage(h, k)
    \/ \E h \in Handlers : UpdGet(h)
    \/ \E h \in Handlers : UpdExec(h)
    \/ \E h \in Handlers : StoreRaise(h)
    \/ \E h \in Handlers : SaveDone(h)
    \/ \E h \in Handlers : EmitError(h)
    \/ \E h \in Handlers : EmitDone(h)
    \/ \E h \in Handlers : Disconnect(h)
    \/ \E t \in Tasks \ Handlers, s \in Sessions :
            GetSessionMessages(t, s, HistoryLimit)

SpecChat == InitChat /\ [][NextChat]_vars

(***************************************************************************)
(* Properties of the session store.                                        *)
(***************************************************************************)
Min(a, b) == IF a <= b THEN a ELSE b

\* The last k entries of a sequence.
LastN(seq, k) == [i \in 1..k |-> seq[Len(seq) - k + i]]

\* C1: after n add_message calls on a session its stored list is exactly the
\* most recent min(n, 20) messages, in the order they were appended.
C1_FifoCap ==
    \A s \in Sessions : msgs[s] = LastN(log[s], Min(Len(log[s]), Cap))

\* C1 witness: more than 20 messages were appended and the oldest was evicted.
C1_Witness ==
    \E s \in Sessions :
        /\ Len(log[s]) > Cap
        /\ Len(msgs[s]) = Cap
        /\ msgs[s][1].content = Len(log[s]) - Cap + 1

\* C2: no get_session_messages call returns more than 20 messages, and the
\* stored list is never longer than 20, while add_message calls are in flight.
C2_ReaderWithinCap ==
    /\ Len(observed.result) <= Cap
    /\ \A s \in Sessions : Len(msgs[s]) <= Cap

\* C2 witness: a read asking for more than the cap returns a full list while an
\* add_message call that has pushed past the cap is still in flight.
C2_Witness ==
    /\ observed.limit > Cap
    /\ Len(observed.result) = Cap
    /\ \E t \in Tasks : pc[t] # "idle" /\ Len(log[tsid[t]]) > Cap

\* C29: a get_session_messages(id, limit) call with limit >= 0 returns at most
\* limit messages, the most recently appended ones in append order, and
\* get_history returns the last (at most 6) stored messages in that order.
C29_RecentMessagesWithinLimit ==
    /\ observed.limit >= 0 =>
           /\ Len(observed.result) <= observed.limit
           /\ \E s \in Sessions :
                  observed.result = LastN(msgs[s], Min(observed.limit, Len(msgs[s])))
    /\ \A s \in Sessions :
           LET h == GetHistory(msgs[s])
               k == Min(HistoryLimit, Len(msgs[s]))
           IN  /\ Len(h) = k
               /\ \A i \in 1..k : h[i] = LcMessage(LastN(msgs[s], k)[i])

\* C3: whenever a session's message list exists it carries an expiry, and
\* when the info record exists too both keys have the same remaining lifetime.
C3_TtlAtomicWithAppend ==
    \A s \in Sessions :
        msgs[s] # <<>> =>
            /\ msgsTtl[s] # NoExpiry
            /\ info[s] # NoInfo => infoTtl[s] = msgsTtl[s]

\* C30: once the add_message calls made on a live session have all returned,
\* the session record's message_count has grown by exactly the number of
\* messages appended, also when calls ran concurrently.
C30_CountMatchesAppends ==
    (\A t \in Tasks : pc[t] = "idle") =>
        \A s \in Sessions :
            info[s] # NoInfo => info[s].message_count = Len(log[s])

(***************************************************************************)
(* Properties of the chat turn.                                            *)
(***************************************************************************)
\* The roles get_history reads as the user's and as the assistant's.
UserRoles == {"user", "human"}
AssistantRoles == {"assistant", "ai", "model"}

RECURSIVE Concat(_)
\* The concatenation of a sequence of texts.
Concat(texts) == IF texts = <<>> THEN <<>> ELSE Head(texts) \o Concat(Tail(texts))

\* The texts of the content events of a stream, in emission order.
ContentTexts(ev) ==
    LET kept == SelectSeq(ev, LAMBDA e : e.type = "content")
    IN  [i \in 1..Len(kept) |-> kept[i].text]

EventsOfType(ev, type) == {i \in 1..Len(ev) : ev[i].type = type}

\* The assistant messages a turn has pushed to the store.
AssistantAppends(h) ==
    {i \in 1..Len(appended[h]) : appended[h][i].role \in AssistantRoles}

\* C4: the assistant message a turn persists is the concatenation, in emission
\* order, of the texts of the content events of its stream, and those are the
\* non-empty AnswerGenerator fragments in generation order.
C4_PersistedEqualsContent ==
    \A h \in Handlers :
        \A i \in AssistantAppends(h) :
            /\ appended[h][i].content = Concat(ContentTexts(stream[h]))
            /\ ContentTexts(stream[h]) = answerFrags[h]

\* C4 witness: a turn with history, hence with a rewriting step, streamed two
\* fragments and persisted its assistant message.
C4_Witness ==
    \E h \in Handlers :
        /\ AssistantAppends(h) # {}
        /\ Len(answerFrags[h]) = 2
        /\ history[h] # <<>>
        /\ full_response[h] = <<"a", "b">>

\* C5: a stream that completes or fails ends with the termination sentinel,
\* emitted once and last; a failed turn, whether the failure is an exception
\* reaching the handler or a failed inference call, has an error event
\* carrying a message before the sentinel, and no content event after it.
C5_SentinelOnceAndLast ==
    \A h \in Handlers :
        LET ev == stream[h]
            dones == EventsOfType(ev, "done")
            errs == EventsOfType(ev, "error")
        IN  /\ Cardinality(dones) <= 1
            /\ \A i \in dones : i = Len(ev)
            /\ hpc[h] = "closed" => dones # {}
            /\ hpc[h] = "closed" /\ herr[h] # NoError =>
                   \E i \in errs : ev[i].text = herr[h] /\ i < Len(ev)
            /\ hpc[h] = "closed" /\ llmFailed[h] =>
                   \E i \in errs : ev[i].text # <<>> /\ i < Len(ev)
            /\ \A i \in errs : \A j \in (i + 1)..Len(ev) : ev[j].type # "content"

\* C6: a completed turn has appended exactly two messages, the user's question
\* first and the assistant's answer second, and an assistant message is only
\* ever appended once every fragment of the answer has been accumulated.
C6_TwoMessagesInOrder ==
    \A h \in Handlers :
        /\ hpc[h] = "closed" /\ herr[h] = NoError =>
               /\ Len(appended[h]) = 2
               /\ appended[h][1].role \in UserRoles
               /\ appended[h][1].content = question[h]
               /\ appended[h][2].role \in AssistantRoles
        /\ \A i \in AssistantAppends(h) :
               /\ cph[h] = "end"
               /\ appended[h][i].content = Concat(answerFrags[h])
               /\ i > 1 /\ appended[h][i - 1].role \in UserRoles

\* C6 witness: a turn completed with a non-empty answer.
C6_Witness ==
    \E h \in Handlers :
        /\ hpc[h] = "closed"
        /\ herr[h] = NoError
        /\ Len(appended[h]) = 2
        /\ answerFrags[h] # <<>>

\* A log in which every user message is followed by an assistant message.
WholeTurns(list) ==
    \A i \in 1..Len(list) :
        list[i].role \in UserRoles =>
            i < Len(list) /\ list[i + 1].role \in AssistantRoles

\* C7: neither the stored log nor what a reader is handed ever holds a user
\* message without the assistant message of its turn.
C7_NoHalfWrittenTurn ==
    /\ \A s \in Sessions : WholeTurns(msgs[s])
    /\ WholeTurns(observed.result)

\* What holds of a turn whose client has disconnected: its upstream HTTP stream
\* is not open, no store call of it is in flight, and no assistant message was
\* written from a partial answer.
C8_DisconnectInv ==
    \A h \in Handlers :
        hpc[h] = "aborted" =>
            /\ upstream[h] # "open"
            /\ pc[h] = "idle"
            /\ \A i \in AssistantAppends(h) :
                   cph[h] = "end" /\ appended[h][i].content = Concat(answerFrags[h])

C9_InferenceFailureIsErrorEvent ==
    \A h \in Handlers :
        llmFailed[h] =>
            /\ \A i \in EventsOfType(stream[h], "content") : stream[h][i].text \notin LlmErrors
            /\ hpc[h] = "closed" => EventsOfType(stream[h], "error") # {}
            /\ \A i \in AssistantAppends(h) :
                   \A k \in 1..Len(appended[h][i].content) :
                       <<appended[h][i].content[k]>> \notin LlmErrors

(***************************************************************************)
(* The owner-scoped retriever: MilvusVectorStore.get_retriever             *)
(* (storage/vector_store.py).  A string is a sequence of lexical atoms;    *)
(* the filter expression is the string the f-string builds, and the        *)
(* search evaluates it as a boolean expression over each chunk's           *)
(* user_id_card: comparisons of the field with a quoted literal, joined    *)
(* by "or".                                                                *)
\* C16: fragments of an auxiliary model run (the question rewriter or any
\* run not named AnswerGenerator) are never emitted as content events and are
\* never part of the accumulated or persisted answer, and the stored history
\* does not change while the rewriting step runs.
C16_AuxiliaryNeverSurfaces ==
    /\ [](\A h \in Handlers :
            /\ ContentTexts(stream[h]) = answerFrags[h]
            /\ full_response[h] = Concat(answerFrags[h])
            /\ \A i \in AssistantAppends(h) :
                   appended[h][i].content = Concat(answerFrags[h]))
    /\ [][\A h \in Handlers :
            cph[h] = "rewrite" =>
                /\ msgs' = msgs
                /\ full_response'[h] = full_response[h]
                /\ ContentTexts(stream'[h]) = ContentTexts(stream[h])]_vars

\* C16 witness: the rewriter streamed a non-empty fragment, the answer
\* generator another, and the turn persisted its assistant message.
C16_Witness ==
    \E h \in Handlers :
        /\ auxFrags[h] # <<>>
        /\ answerFrags[h] # <<>>
        /\ AssistantAppends(h) # {}
        /\ ~llmFailed[h]

(***************************************************************************)
\* The longest owner-scope string tried, in atoms.
MaxScopeLen == 5
\* get_retriever's default k.
TopK == 4

Atoms == {"a", "b", "'", " or ", "user_id_card", " != "}
\* The non-empty strings of at most n atoms.
Strings(n) == UNION {[1..k -> Atoms] : k \in 1..n}

\* The indexed chunks, of several owners.
Corpus == {[id |-> 1, user_id_card |-> <<"a">>],
           [id |-> 2, user_id_card |-> <<"a">>],
           [id |-> 3, user_id_card |-> <<"b">>]}

\* get_retriever: f"user_id_card == '{user_id_card}'".
FilterExpr(user_id_card) ==
    <<"user_id_card", " == ", "'">> \o user_id_card \o <<"'">>

\* search_kwargs without an "expr" key.
NoExpr == <<>>

\* get_retriever with the filter added whatever user_id_card is.
SearchExprAlways(user_id_card) == FilterExpr(user_id_card)

\* get_retriever: search_kwargs gets "expr" only "if user_id_card"; None and
\* the empty string, both the empty text here, are falsy.
SearchExpr(user_id_card) ==
    IF user_id_card # <<>> THEN FilterExpr(user_id_card) ELSE NoExpr

\* SimpleChatRequest: a message and an optional session id, nothing else.
SimpleChatRequest == [message |-> <<"q">>, session_id |-> None]

\* The owner id the chain of a chat request retrieves with: the one the
\* request carries, none when it has no such field.
ChainOwner(request) ==
    IF "user_id_card" \in DOMAIN request THEN request.user_id_card ELSE <<>>

Token(kind, text) == [kind |-> kind, text |-> text]

RECURSIVE Lex(_, _, _, _)
\* The tokens of expression e from position i on; inlit says that a string
\* literal is open, and lit is what it holds so far.  A quote opens and
\* closes a literal; an unclosed literal is a lexical error.
Lex(e, i, inlit, lit) ==
    IF i > Len(e)
    THEN IF inlit THEN <<Token("bad", <<>>)>> ELSE <<>>
    ELSE IF inlit
         THEN IF e[i] = "'"
              THEN <<Token("str", lit)>> \o Lex(e, i + 1, FALSE, <<>>)
              ELSE Lex(e, i + 1, TRUE, Append(lit, e[i]))
         ELSE IF e[i] = "'" THEN Lex(e, i + 1, TRUE, <<>>)
         ELSE IF e[i] = "user_id_card" THEN <<Token("field", <<>>)>> \o Lex(e, i + 1, FALSE, <<>>)
         ELSE IF e[i] = " == " THEN <<Token("eq", <<>>)>> \o Lex(e, i + 1, FALSE, <<>>)
         ELSE IF e[i] = " != " THEN <<Token("ne", <<>>)>> \o Lex(e, i + 1, FALSE, <<>>)
         ELSE IF e[i] = " or " THEN <<Token("or", <<>>)>> \o Lex(e, i + 1, FALSE, <<>>)
         ELSE <<Token("bad", <<>>)>> \o Lex(e, i + 1, FALSE, <<>>)

\* A comparison: the field, == or !=, a string literal.
IsComparison(toks, i) ==
    /\ i + 2 <= Len(toks)
    /\ toks[i].kind = "field"
    /\ toks[i + 1].kind \in {"eq", "ne"}
    /\ toks[i + 2].kind = "str"

RECURSIVE WellFormed(_, _)
\* toks from position i on is: comparison ("or" comparison)*.
WellFormed(toks, i) ==
    /\ IsComparison(toks, i)
    /\ \/ i + 2 = Len(toks)
       \/ /\ i + 3 <= Len(toks)
          /\ toks[i + 3].kind = "or"
          /\ WellFormed(toks, i + 4)

RECURSIVE Holds(_, _, _)
\* The value of the well-formed expression from position i on for a chunk
\* whose user_id_card is owner.
Holds(toks, i, owner) ==
    \/ IF toks[i + 1].kind = "eq" THEN owner = toks[i + 2].text ELSE owner # toks[i + 2].text
    \/ i + 3 <= Len(toks) /\ Holds(toks, i + 4, owner)

\* The chunks a search with filter expression e may return; an expression
\* that does not parse is an error and returns nothing.
Matching(e) ==
    LET toks == Lex(e, 1, FALSE, <<>>)
    IN  IF WellFormed(toks, 1)
        THEN {c \in Corpus : Holds(toks, 1, c.user_id_card)}
        ELSE {}

\* get_retriever(user_id_card) and one search through the retriever: at most
\* k of the chunks the filter admits, or of all chunks when there is none.
Search(got) ==
    /\ rpc = "ready"
    /\ LET expr == SearchExpr(scope)
           admitted == IF expr # NoExpr THEN Matching(expr) ELSE Corpus
       IN  /\ got \subseteq admitted
           /\ Cardinality(got) <= TopK
           /\ hits' = got
           /\ rexpr' = expr
    /\ rpc' = "done"
    /\ UNCHANGED <<scope, rvia, storeVars, chatVars, sideButRetr>>

InitRetr ==
    /\ ChatIdle
    /\ SideIdle
    /\ LinesIdle
    /\ PromptIdle
    /\ IngestIdle
    /\ DelIdle
    /\ AddIdle
    /\ MilvusIdle
    /\ HealthIdle
    /\ RerankIdle
    /\ StartIdle
    /\ TurnIdle
    /\ HistIdle
    /\ client = FALSE
    /\ info = [s \in Sessions |-> NoInfo]
    /\ infoTtl = [s \in Sessions |-> NoExpiry]
    /\ msgs = [s \in Sessions |-> <<>>]
    /\ msgsTtl = [s \in Sessions |-> NoExpiry]
    /\ pc = [t \in Tasks |-> "idle"]
    /\ tsid = [t \in Tasks |-> None]
    /\ tjson = [t \in Tasks |-> NoInfo]
    /\ observed = NoRead
    /\ log = [s \in Sessions |-> <<>>]
    /\ rvia \in {"get_retriever", "chat"}
    /\ scope \in IF rvia = "chat" THEN {ChainOwner(SimpleChatRequest)}
                ELSE Strings(MaxScopeLen) \cup {<<>>}
    /\ hits = {}
    /\ rpc = "ready"
    /\ rexpr = NoExpr

NextRetr == \E got \in SUBSET Corpus : Search(got)

SpecRetr == InitRetr /\ [][NextRetr]_vars

\* C10: a search configured with an owner scope returns only chunks whose
\* user_id_card equals the scope string.
C10_OwnerScopeExact ==
    rpc = "done" /\ scope # <<>> => \A c \in hits : c.user_id_card = scope

\* C37: the configured search carries the owner filter exactly when a
\* non-empty owner id is supplied; without one it has no filter expression
\* and any chunk may be returned, and a chat request, which has no owner
\* field, always retrieves without a filter.
C37_FilterIffOwnerGiven ==
    rpc = "done" =>
        /\ scope # <<>> => rexpr = FilterExpr(scope)
        /\ scope = <<>> => rexpr = NoExpr
        /\ rvia = "chat" => rexpr = NoExpr

\* A chat request's search without a filter has returned chunks of both owners.
C37_Witness ==
    /\ rpc = "done"
    /\ rvia = "chat"
    /\ rexpr = NoExpr
    /\ \A o \in {<<"a">>, <<"b">>} : \E c \in hits : c.user_id_card = o

(***************************************************************************)
(* Reading a session: SessionStore.get_session and the GET                 *)
(* /sessions/{session_id} endpoint (api/endpoints.py).                     *)
(***************************************************************************)
\* Session reads made in one behaviour of SpecRead.
MaxReads == 2

\* get_session raising for a key that does not exist.
SessionReadRaises(connected, data) ==
    IF connected /\ data # NoInfo
    THEN [found |-> TRUE, status |-> 200, raised |-> FALSE]
    ELSE [found |-> FALSE, status |-> 500, raised |-> TRUE]

\* get_session: None without a client, None when GET finds no key, else the
\* SessionInfo; the endpoint answers 404 for None and 200 with the session.
SessionRead(connected, data) ==
    IF ~connected THEN [found |-> FALSE, status |-> 404, raised |-> FALSE]
    ELSE IF data = NoInfo THEN [found |-> FALSE, status |-> 404, raised |-> FALSE]
    ELSE [found |-> TRUE, status |-> 200, raised |-> FALSE]

\* GET /sessions/{session_id}: one GET of the info key, nothing written.
ReadSession(t, s) ==
    /\ pc[t] = "idle"
    /\ sread.n < MaxReads
    /\ LET r == SessionRead(client, info[s])
       IN  sread' = [sid |-> s, n |-> sread.n + 1, found |-> r.found,
                     status |-> r.status, raised |-> r.raised]
    /\ observed' = NoRead
    /\ UNCHANGED <<storeVarsButObserved, chatVars, sideButRead>>

\* Redis holds session s1 from an earlier run; s2 was never created.
InitRead ==
    /\ ChatIdle
    /\ RetrIdle
    /\ SideIdle
    /\ LinesIdle
    /\ PromptIdle
    /\ IngestIdle
    /\ DelIdle
    /\ AddIdle
    /\ MilvusIdle
    /\ HealthIdle
    /\ RerankIdle
    /\ StartIdle
    /\ TurnIdle
    /\ HistIdle
    /\ client = FALSE
    /\ info = [s \in Sessions |-> IF s = "s1" THEN [message_count |-> 0] ELSE NoInfo]
    /\ infoTtl = [s \in Sessions |-> IF s = "s1" THEN TtlTicks ELSE NoExpiry]
    /\ msgs = [s \in Sessions |-> <<>>]
    /\ msgsTtl = [s \in Sessions |-> NoExpiry]
    /\ pc = [t \in Tasks |-> "idle"]
    /\ tsid = [t \in Tasks |-> None]
    /\ tjson = [t \in Tasks |-> NoInfo]
    /\ observed = NoRead
    /\ log = [s \in Sessions |-> <<>>]

NextRead ==
    \/ Connect
    \/ Tick
    \/ \E t \in Tasks, s \in Sessions : ReadSession(t, s)
    \/ \E t \in Tasks, s \in Sessions : GetOrCreateGet(t, s)
    \/ \E t \in Tasks : CreateExec(t)
    \/ \E t \in Tasks, s \in Sessions : DeleteSession(t, s)

SpecRead == InitRead /\ [][NextRead]_vars

\* C20: a session read never raises and leaves the store as it was, and the
\* read of a session that is missing, expired or deleted finds nothing and is
\* answered with 404.
C20_MissingSessionNotFound ==
    [][sread'.n # sread.n =>
          /\ UNCHANGED <<client, info, infoTtl, msgs, msgsTtl>>
          /\ ~sread'.raised
          /\ (info[sread'.sid] = NoInfo \/ ~client) =>
                 ~sread'.found /\ sread'.status = 404
          /\ (info[sread'.sid] # NoInfo /\ client) =>
                 sread'.found /\ sread'.status = 200]_vars

\* C20 witness: session s1, which existed, has expired or been deleted, and a
\* read of it on a connected store was answered with 404.
C20_Witness ==
    /\ client
    /\ sread.sid = "s1"
    /\ sread.status = 404
    /\ info["s1"] = NoInfo

(***************************************************************************)
(* LLMService.chat_stream's line loop (services/llm_service.py): the       *)
(* upstream response is a sequence of lines; a line is a record saying     *)
(* whether it starts with "data: ", what json.loads makes of its payload   *)
(* and, for a well-formed chunk, its choices[0].delta.content.             *)
(***************************************************************************)
\* Lines of one upstream response.
MaxLines == 4

\* The end marker "data: [DONE]".
EndMarker == [data |-> TRUE, json |-> "done", content |-> <<>>]
\* A payload json.loads rejects (JSONDecodeError).
Malformed == [data |-> TRUE, json |-> "invalid", content |-> <<>>]
\* Valid JSON of another shape (a list, an empty choices array): any other exception.
WrongShape == [data |-> TRUE, json |-> "shape", content |-> <<>>]
\* A line without the "data: " prefix: a blank line, a comment, an event field.
OtherLine == [data |-> FALSE, json |-> "none", content |-> <<>>]
\* A well-formed chunk; its content may be empty or absent.
Fragment(c) == [data |-> TRUE, json |-> "ok", content |-> c]

LineValues == {EndMarker, Malformed, WrongShape, OtherLine,
               Fragment(<<>>), Fragment(<<"a">>), Fragment(<<"b">>)}

RECURSIVE LineSeqs(_)
LineSeqs(n) ==
    IF n = 0 THEN {<<>>}
    ELSE LET shorter == LineSeqs(n - 1)
         IN  shorter \cup {Append(s, l) : s \in {x \in shorter : Len(x) = n - 1},
                                          l \in LineValues}

\* The loop body ending the stream at a payload it cannot parse.
LineStepAborting(line) ==
    IF ~line.data THEN [out |-> <<>>, stop |-> FALSE]
    ELSE IF line.json = "done" THEN [out |-> <<>>, stop |-> TRUE]
    ELSE IF line.json = "invalid" THEN [out |-> <<>>, stop |-> TRUE]
    ELSE IF line.json = "shape" THEN [out |-> <<>>, stop |-> FALSE]
    ELSE IF line.content # <<>> THEN [out |-> <<line.content>>, stop |-> FALSE]
    ELSE [out |-> <<>>, stop |-> FALSE]

\* The loop body for one line: what it yields and whether it leaves the loop.
LineStep(line) ==
    IF ~line.data THEN [out |-> <<>>, stop |-> FALSE]
    ELSE IF line.json = "done" THEN [out |-> <<>>, stop |-> TRUE]
    ELSE IF line.json = "invalid" THEN [out |-> <<>>, stop |-> FALSE]
    ELSE IF line.json = "shape" THEN [out |-> <<>>, stop |-> FALSE]
    ELSE IF line.content # <<>> THEN [out |-> <<line.content>>, stop |-> FALSE]
    ELSE [out |-> <<>>, stop |-> FALSE]

\* aiter_lines delivers the next line and the loop body handles it.
ReadLine ==
    /\ lpc = "reading"
    /\ lpos < Len(lines)
    /\ LET r == LineStep(lines[lpos + 1])
       IN  /\ yielded' = yielded \o r.out
           /\ lpc' = IF r.stop THEN "ended" ELSE "reading"
    /\ lpos' = lpos + 1
    /\ UNCHANGED <<lines, storeVars, chatVars, sideButLines>>

\* The response has no more lines: the loop and the generator end.
EndOfLines ==
    /\ lpc = "reading"
    /\ lpos = Len(lines)
    /\ lpc' = "ended"
    /\ UNCHANGED <<lines, lpos, yielded, storeVars, chatVars, sideButLines>>

InitLines ==
    /\ ChatIdle
    /\ RetrIdle
    /\ MilvusIdle
    /\ HealthIdle
    /\ RerankIdle
    /\ StartIdle
    /\ TurnIdle
    /\ HistIdle
    /\ auxFrags = [h \in Handlers |-> <<>>]
    /\ sread = NoSessionRead
    /\ client = FALSE
    /\ info = [s \in Sessions |-> NoInfo]
    /\ infoTtl = [s \in Sessions |-> NoExpiry]
    /\ msgs = [s \in Sessions |-> <<>>]
    /\ msgsTtl = [s \in Sessions |-> NoExpiry]
    /\ pc = [t \in Tasks |-> "idle"]
    /\ tsid = [t \in Tasks |-> None]
    /\ tjson = [t \in Tasks |-> NoInfo]
    /\ observed = NoRead
    /\ log = [s \in Sessions |-> <<>>]
    /\ PromptIdle
    /\ IngestIdle
    /\ DelIdle
    /\ AddIdle
    /\ lines \in LineSeqs(MaxLines)
    /\ lpos = 0
    /\ yielded = <<>>
    /\ lpc = "reading"

NextLines == ReadLine \/ EndOfLines

SpecLines == InitLines /\ [][NextLines]_vars

\* The contents of the well-formed, non-empty fragments among some lines.
FragmentTexts(ls) ==
    LET kept == SelectSeq(ls, LAMBDA l : l.data /\ l.json = "ok" /\ l.content # <<>>)
    IN  [i \in 1..Len(kept) |-> kept[i].content]

\* The lines up to the end marker, or all of them if there is none.
UntilEndMarker(ls) ==
    LET ends == {i \in 1..Len(ls) : ls[i] = EndMarker}
    IN  IF ends = {} THEN ls
        ELSE SubSeq(ls, 1, CHOOSE i \in ends : \A j \in ends : i <= j)

\* C19: a line whose payload fails to parse is skipped and does not end the
\* stream: what chat_stream has yielded is, in arrival order, the content of
\* every well-formed fragment read so far, and the stream ends only at the
\* end marker or at the end of the response.
C19_MalformedLineSkipped ==
    /\ yielded = FragmentTexts(SubSeq(lines, 1, lpos))
    /\ lpc = "ended" =>
           /\ lpos = Len(UntilEndMarker(lines))
           /\ yielded = FragmentTexts(UntilEndMarker(lines))
    /\ lpc = "reading" => \A i \in 1..lpos : lines[i] # EndMarker

\* C19 witness: a stream that ended at its end marker after yielding a
\* fragment before and a fragment after a line that failed to parse.
C19_Witness ==
    /\ lpc = "ended"
    /\ Len(lines) = MaxLines
    /\ lines[1] = Fragment(<<"a">>)
    /\ lines[2] = Malformed
    /\ lines[3] = Fragment(<<"b">>)
    /\ lines[MaxLines] = EndMarker
    /\ yielded = <<<<"a">>, <<"b">>>>

(***************************************************************************)
(* The generation request: get_rag_prompt_messages and format_docs         *)
(* (core/chains.py), then VLLMChatModel._astream and                       *)
(* LLMService._build_messages (services/llm_service.py).                   *)
(***************************************************************************)
\* _build_messages keeps conversation_history[-6:] (llm_service.py:189).
PayloadHistoryLimit == 6

\* The retrieved documents, after reordering.
Doc(source, text) == [source |-> source, page_content |-> text]
DocLists == {<<>>,
             <<Doc("handbook.md", "leave rules")>>,
             <<Doc("handbook.md", "leave rules"), Doc("faq.md", "office hours")>>,
             <<Doc("schema.md", "{")>>}

\* The questions asked: plain, with a braced word, with doubled braces.
PromptQuestions == {<<"q">>, <<"{", "q", "}">>, <<"{", "{", "q", "}", "}">>}

\* The fixed part of RAG_PROMPT's system template, before {context}.
GroundingRules == <<"grounding rules">>
\* _build_messages' own system message.
GenericSystem == <<"generic assistant instruction">>

\* A LangChain message and a message of the OpenAI-format payload.
Lc(type, content) == [type |-> type, content |-> content]
Oai(role, content) == [role |-> role, content |-> content]

\* The histories the handler can supply: up to 6 messages, human or ai.
RECURSIVE Histories(_)
Histories(n) ==
    IF n = 0 THEN {<<>>}
    ELSE LET shorter == Histories(n - 1)
         IN  shorter \cup {Append(h, Lc(type, <<"m", n>>)) :
                               h \in {x \in shorter : Len(x) = n - 1},
                               type \in {"human", "ai"}}

\* format_docs: "\n\n".join of one line per document.
RECURSIVE FormatDocs(_)
FormatDocs(docs) ==
    IF docs = <<>> THEN <<>>
    ELSE LET d == Head(docs)
             part == <<"source: ", d.source, ". content: ", d.page_content>>
         IN  IF Tail(docs) = <<>> THEN part
             ELSE part \o <<"\n\n">> \o FormatDocs(Tail(docs))

RECURSIVE Render(_, _)
\* from_template(text).format() with no arguments, from position i on: the
\* text is parsed as an f-string template.  A doubled brace gives one brace;
\* any other brace opens a placeholder that has no value or is a syntax
\* error, and the call raises.
Render(text, i) ==
    IF i > Len(text) THEN [raised |-> FALSE, text |-> <<>>]
    ELSE IF text[i] \in {"{", "}"}
         THEN IF i + 1 <= Len(text) /\ text[i + 1] = text[i]
              THEN LET rest == Render(text, i + 2)
                   IN  [raised |-> rest.raised, text |-> <<text[i]>> \o rest.text]
              ELSE [raised |-> TRUE, text |-> <<>>]
         ELSE LET rest == Render(text, i + 1)
              IN  [raised |-> rest.raised, text |-> <<text[i]>> \o rest.text]

\* get_rag_prompt_messages, step 3: template.format(context=context_str)
\* pastes the context into the system template as it is.
FinalSystemMessage(context) == GroundingRules \o context

\* get_rag_prompt_messages raises while building the messages.
PromptRaises(q, context) ==
    Render(FinalSystemMessage(context), 1).raised \/ Render(q, 1).raised

\* get_rag_prompt_messages, steps 3 and 4: the system message with the
\* context, the history, the question as the human message, the system
\* text and the question each rendered as a template.
RagPromptMessages(q, hist, context) ==
    <<Lc("system", Render(FinalSystemMessage(context), 1).text)>>
        \o hist \o <<Lc("human", Render(q, 1).text)>>

\* _astream: the role given to each message before the last one.
OaiRole(m) == IF m.type = "human" THEN "user" ELSE "assistant"

\* _astream: conversation_history, from messages[:-1].
ConversationHistory(messages) ==
    [i \in 1..(Len(messages) - 1) |-> Oai(OaiRole(messages[i]), messages[i].content)]

\* _astream: current_message, from messages[-1].
CurrentMessage(messages) ==
    IF messages = <<>> THEN <<>> ELSE messages[Len(messages)].content

\* _build_messages: its system message, the last 6 of the conversation
\* history, the current message as the user message.
BuildMessages(current, conv) ==
    <<Oai("system", GenericSystem)>>
        \o SubSeq(conv, Len(conv) - Min(Len(conv), PayloadHistoryLimit) + 1, Len(conv))
        \o <<Oai("user", current)>>

\* get_rag_prompt_messages: retrieval, format_docs, the message list.
\* The query get_rag_prompt_messages hands to base_retriever.ainvoke: the
\* question, whatever the history.
RetrievalQuery(q, hist) == q

BuildPrompt ==
    /\ ppc = "start"
    /\ pcontext' = FormatDocs(pdocs)
    /\ pquery' = RetrievalQuery(pquestion, phist)
    /\ IF PromptRaises(pquestion, FormatDocs(pdocs))
       THEN pmsgs' = <<>> /\ ppc' = "raised"
       ELSE /\ pmsgs' = RagPromptMessages(pquestion, phist, FormatDocs(pdocs))
            /\ ppc' = "prompt"
    /\ UNCHANGED <<pquestion, phist, pdocs, payload, pcalls, storeVars, chatVars,
                   sideButPrompt>>

\* LLM.astream(all_messages): _astream splits the messages and chat_stream
\* builds the payload with _build_messages.
SendPrompt ==
    /\ ppc = "prompt"
    /\ payload' = BuildMessages(CurrentMessage(pmsgs), ConversationHistory(pmsgs))
    /\ pcalls' = Append(pcalls, "answer")
    /\ ppc' = "sent"
    /\ UNCHANGED <<pquestion, phist, pdocs, pcontext, pmsgs, pquery, storeVars, chatVars,
                   sideButPrompt>>

InitPrompt ==
    /\ ChatIdle
    /\ RetrIdle
    /\ SideIdle
    /\ LinesIdle
    /\ MilvusIdle
    /\ HealthIdle
    /\ RerankIdle
    /\ StartIdle
    /\ TurnIdle
    /\ HistIdle
    /\ client = FALSE
    /\ info = [s \in Sessions |-> NoInfo]
    /\ infoTtl = [s \in Sessions |-> NoExpiry]
    /\ msgs = [s \in Sessions |-> <<>>]
    /\ msgsTtl = [s \in Sessions |-> NoExpiry]
    /\ pc = [t \in Tasks |-> "idle"]
    /\ tsid = [t \in Tasks |-> None]
    /\ tjson = [t \in Tasks |-> NoInfo]
    /\ observed = NoRead
    /\ log = [s \in Sessions |-> <<>>]
    /\ IngestIdle
    /\ DelIdle
    /\ AddIdle
    /\ pquestion \in PromptQuestions
    /\ phist \in Histories(HistoryLimit)
    /\ pdocs \in DocLists
    /\ pcontext = <<>>
    /\ pmsgs = <<>>
    /\ payload = <<>>
    /\ ppc = "start"
    /\ pquery = <<>>
    /\ pcalls = <<>>

NextPrompt == BuildPrompt \/ SendPrompt

SpecPrompt == InitPrompt /\ [][NextPrompt]_vars

\* The history as it should appear in the payload.
HistoryInPayload(hist) ==
    [i \in 1..Len(hist) |-> Oai(OaiRole(hist[i]), hist[i].content)]

\* C17: for every history of 0 to 6 messages, the request sent to the
\* inference endpoint is, in order, the system instruction holding the
\* assembled context, the history, and the question as the final user message.
C17_RequestOrder ==
    ppc = "sent" =>
        \E i \in 1..Len(payload) :
            /\ payload[i] = Oai("system", GroundingRules \o pcontext)
            /\ SubSeq(payload, i + 1, Len(payload))
                   = HistoryInPayload(phist) \o <<Oai("user", pquestion)>>

\* The text the prompt must carry when nothing was retrieved.
NoBackgroundPlaceholder == <<"no relevant background found">>

\* C18: when retrieval yields no document, the context placed in the
\* generation prompt is the explicit placeholder and is never empty.
C18_EmptyContextPlaceholder ==
    ppc \in {"prompt", "sent"} /\ pdocs = <<>> =>
        /\ pcontext # <<>>
        /\ pcontext = NoBackgroundPlaceholder
        /\ pmsgs[1] = Lc("system", GroundingRules \o NoBackgroundPlaceholder)

\* C38: for every question and every retrieved context, text with brace
\* characters included, get_rag_prompt_messages returns without raising a
\* list whose last message is the question verbatim and whose first message
\* contains the context verbatim.
C38_PromptCarriesTextVerbatim ==
    ppc \in {"prompt", "sent", "raised"} =>
        /\ ppc # "raised"
        /\ pmsgs # <<>>
        /\ pmsgs[Len(pmsgs)] = Lc("human", pquestion)
        /\ pmsgs[1] = Lc("system", GroundingRules \o FormatDocs(pdocs))

\* The generation calls of the turn made to rewrite the question.
RewriteCalls == SelectSeq(pcalls, LAMBDA c : c = "rewrite")

\* C27: a turn without prior messages retrieves with the question unchanged
\* and makes no rewrite call; a turn with prior messages makes exactly one.
C27_RewriteOnlyWithHistory ==
    ppc = "sent" =>
        /\ phist = <<>> => pquery = pquestion /\ Len(RewriteCalls) = 0
        /\ phist # <<>> => Len(RewriteCalls) = 1

(***************************************************************************)
(* Knowledge upload: upload_knowledge_file and _background_pipeline        *)
(* (api/endpoints.py), OCRService.file_to_markdown                         *)
(* (services/ocr_service.py), index_markdown_content and index_documents   *)
(* (storage/vector_store.py).  The queued tasks are run one after the      *)
(* other, in order, once the response has been sent (BackgroundTasks).     *)
(***************************************************************************)
\* Files submitted in one upload request.
MaxFiles == 2

\* What can go wrong with an accepted file:
\*   "corrupt"       the extraction service rejects it;
\*   "corrupt_late"  the service writes its Markdown file, then the call fails
\*                   (reading the file back fails, or the request times out);
\*   "index"         writing to the vector index fails;
\*   "cleanup"       os.remove of the uploaded file raises.
\* A file whose save fails carries "none" when open() fails and "partial" when
\* open() has created the file and copyfileobj then fails.
Faults == {"none", "corrupt", "corrupt_late", "index", "cleanup"}

UploadedFile(ext, saveOk, fault) == [ext |-> ext, saveOk |-> saveOk, fault |-> fault]
FileKinds ==
    {UploadedFile(".txt", TRUE, "none"), UploadedFile(".pdf", FALSE, "none"),
     UploadedFile(".pdf", FALSE, "partial"), UploadedFile(".PNG", TRUE, "none")}
        \cup {UploadedFile(".pdf", TRUE, fault) : fault \in Faults}

RECURSIVE Batches(_)
Batches(n) ==
    IF n = 0 THEN {<<>>}
    ELSE LET shorter == Batches(n - 1)
         IN  shorter \cup {Append(b, f) : b \in {x \in shorter : Len(x) = n - 1},
                                          f \in FileKinds}

Owners == {"a", "b"}
\* The user_name form field.
UserName == "name"

\* file.filename of the i-th file, its saved copy, the extraction's output.
FileName(i) == <<"file", i>>
UploadPath(i) == <<"temp_inputs", i>>
MdPath(i) == <<"ocr_output", i>>

\* allowed_exts
AllowedExts == {".pdf", ".jpg", ".png", ".jpeg"}
\* str.lower on the extension
Lower(ext) == IF ext = ".PNG" THEN ".png" ELSE ext

Rejected(name, reason) == [filename |-> name, reason |-> reason]
PipelineTask(i, uid) ==
    [local_file_path |-> UploadPath(i), user_id |-> uid, user_name |-> UserName,
     original_filename |-> FileName(i), file |-> i]

\* background_tasks.add_task left out.
EnqueueNothing(queue, task) == queue

\* background_tasks.add_task
Enqueue(queue, task) == Append(queue, task)

\* One iteration of upload_knowledge_file's loop, on the handler's locals.
UploadOne(st, i, f, uid) ==
    IF Lower(f.ext) \notin AllowedExts
    THEN [st EXCEPT !.failed = Append(@, Rejected(FileName(i), "Unsupported format"))]
    ELSE IF ~f.saveOk
    THEN [st EXCEPT !.failed = Append(@, Rejected(FileName(i), "Save failed")),
                    !.disk = IF f.fault = "partial" THEN @ \cup {UploadPath(i)} ELSE @]
    ELSE [st EXCEPT !.disk = @ \cup {UploadPath(i)},
                    !.queue = Enqueue(@, PipelineTask(i, uid)),
                    !.uploaded = Append(@, FileName(i))]

\* The loop over the first n files.
RECURSIVE UploadLoop(_, _, _, _)
UploadLoop(st, fs, n, uid) ==
    IF n = 0 THEN st
    ELSE UploadOne(UploadLoop(st, fs, n - 1, uid), n, fs[n], uid)

\* The queue runner moving on: the next queued task starts, or the queue ends.
AfterTask(queue, k) == IF k < Len(queue) THEN "ocr" ELSE "ended"

\* upload_knowledge_file: the whole handler, up to its response.
Upload ==
    /\ bpc = "request"
    /\ LET st == UploadLoop([uploaded |-> <<>>, failed |-> <<>>, queue |-> <<>>,
                             disk |-> disk], files, Len(files), user_id)
       IN  /\ uploaded_details' = st.uploaded
           /\ failed_files' = st.failed
           /\ tasks' = st.queue
           /\ disk' = st.disk
           /\ bpc' = AfterTask(st.queue, 0)
           /\ bcur' = IF st.queue = <<>> THEN 0 ELSE 1
    /\ UNCHANGED <<files, user_id, index, generated_md_path, markdown, ended, indexed>>
    /\ UNCHANGED <<storeVars, chatVars, sideButIngest>>

\* The extracted Markdown: sections under headers, a section being short or
\* longer than the chunk size.
Section(header, long) == [header |-> header, long |-> long]
MarkdownTexts == {<<Section("Intro", FALSE)>>,
                  <<Section("Intro", TRUE), Section("Rules", FALSE)>>}

\* file_to_markdown, and the pipeline's except branch when it raises.
Ocr(md) ==
    /\ bpc = "ocr"
    /\ LET k == tasks[bcur].file
           fault == files[k].fault
       IN  IF fault = "corrupt"
           THEN /\ bpc' = "cleanup"
                /\ UNCHANGED <<disk, generated_md_path, markdown>>
           ELSE IF fault = "corrupt_late"
           THEN /\ disk' = disk \cup {MdPath(k)}
                /\ bpc' = "cleanup"
                /\ UNCHANGED <<generated_md_path, markdown>>
           ELSE /\ disk' = disk \cup {MdPath(k)}
                /\ generated_md_path' = MdPath(k)
                /\ markdown' = md
                /\ bpc' = "index"
    /\ UNCHANGED <<files, user_id, uploaded_details, failed_files, tasks, index, bcur,
                   ended, indexed>>
    /\ UNCHANGED <<storeVars, chatVars, sideButIngest>>

NoMetadata == [key \in {} |-> ""]
Document(content, metadata) == [page_content |-> content, metadata |-> metadata]

\* dict.update: the keys of the argument replace those of the document.
MetadataUpdate(old, new) == new @@ old

\* MarkdownHeaderTextSplitter.split_text on context_header + markdown_content:
\* the header block first, without header metadata, then one document per
\* section carrying its header.
HeaderSplit(md) ==
    <<Document(<<"metadata block">>, NoMetadata)>>
        \o [i \in 1..Len(md) |->
               Document(<<md[i].header, IF md[i].long THEN "long" ELSE "short">>,
                        [key \in {"Header 1"} |-> md[i].header])]

\* A second split that builds its pieces without the document's metadata.
SplitOneBare(doc) ==
    IF doc.page_content[Len(doc.page_content)] = "long"
    THEN <<Document(doc.page_content \o <<"part 1">>, NoMetadata),
           Document(doc.page_content \o <<"part 2">>, NoMetadata)>>
    ELSE <<doc>>

\* RecursiveCharacterTextSplitter.split_documents on one document: a long
\* one becomes several pieces, each with a copy of the document's metadata.
SplitOne(doc) ==
    IF doc.page_content[Len(doc.page_content)] = "long"
    THEN <<Document(doc.page_content \o <<"part 1">>, doc.metadata),
           Document(doc.page_content \o <<"part 2">>, doc.metadata)>>
    ELSE <<doc>>

RECURSIVE SplitDocuments(_)
SplitDocuments(docs) ==
    IF docs = <<>> THEN <<>> ELSE SplitOne(Head(docs)) \o SplitDocuments(Tail(docs))

\* index_markdown_content: header split, metadata injected in every document,
\* second split; the result is what add_documents writes.
MarkdownChunks(md, metadata) ==
    LET md_header_splits == HeaderSplit(md)
        injected == [i \in 1..Len(md_header_splits) |->
                        Document(md_header_splits[i].page_content,
                                 MetadataUpdate(md_header_splits[i].metadata, metadata))]
    IN  SplitDocuments(injected)

\* _background_pipeline's metadata (step 3).
PipelineMetadata(task) ==
    [source |-> task.original_filename, user_id_card |-> task.user_id,
     user_name |-> task.user_name, type |-> "ocr_document"]

\* A chunk in the index, with the upload it came from.
Chunk(doc, name, owner) == [doc |-> doc, from |-> [source |-> name, owner |-> owner]]

\* Steps 2 to 4 of the pipeline: index_markdown_content, or its failure.
Index ==
    /\ bpc = "index"
    /\ LET task == tasks[bcur]
           final_docs == MarkdownChunks(markdown, PipelineMetadata(task))
       IN  IF files[task.file].fault = "index"
           THEN UNCHANGED index
           ELSE index' = index \cup {Chunk(final_docs[i], task.original_filename, task.user_id) :
                                        i \in 1..Len(final_docs)}
    /\ bpc' = "cleanup"
    /\ UNCHANGED <<files, user_id, uploaded_details, failed_files, tasks, disk, bcur,
                   generated_md_path, markdown, ended, indexed>>
    /\ UNCHANGED <<storeVars, chatVars, sideButIngest>>

\* The finally block.  When os.remove raises, the exception leaves the
\* pipeline, and the queue runner, which awaits the tasks in a plain loop,
\* ends with it: the tasks behind are not run.
Cleanup ==
    /\ bpc = "cleanup"
    /\ LET task == tasks[bcur]
       IN  IF files[task.file].fault = "cleanup"
           THEN /\ bpc' = "aborted"
                /\ UNCHANGED <<disk, bcur>>
           ELSE /\ disk' = (disk \ {task.local_file_path})
                              \ (IF generated_md_path # None THEN {generated_md_path} ELSE {})
                /\ bpc' = AfterTask(tasks, bcur)
                /\ bcur' = IF bcur < Len(tasks) THEN bcur + 1 ELSE bcur
    /\ ended' = ended \cup {bcur}
    /\ generated_md_path' = None
    /\ markdown' = <<>>
    /\ UNCHANGED <<files, user_id, uploaded_details, failed_files, tasks, index, indexed>>
    /\ UNCHANGED <<storeVars, chatVars, sideButIngest>>

\* The files handed to index_documents: a name, an extension, whether the
\* loader can read it.
LocalFile(base, ext, loads) == [base |-> base, ext |-> ext, loads |-> loads]
LocalFiles == {LocalFile(<<"manual.pdf">>, ".pdf", TRUE), LocalFile(<<"notes.txt">>, ".txt", TRUE),
               LocalFile(<<"broken.docx">>, ".docx", FALSE),
               LocalFile(<<"sheet.xls">>, ".xls", TRUE)}
\* LOADER_MAPPING's keys
LoaderExts == {".pdf", ".txt", ".mmd", ".docx"}

\* index_documents: each loaded document gets source, user_name and
\* user_id_card, then the documents are split.
LoadedChunks(f, owner) ==
    IF f.ext \notin LoaderExts \/ ~f.loads THEN <<>>
    ELSE SplitDocuments(
             <<Document(f.base \o <<"long">>,
                        MetadataUpdate([source |-> <<"path">> \o f.base, page |-> 0],
                                       [source |-> f.base, user_name |-> UserName,
                                        user_id_card |-> owner]))>>)

\* index_documents(file_paths, user_name, user_id_card)
IndexDocuments(paths, owner) ==
    /\ ~indexed
    /\ bpc # "none"
    /\ indexed' = TRUE
    /\ index' = index \cup UNION {
                    {Chunk(LoadedChunks(f, owner)[i], f.base, owner) :
                        i \in 1..Len(LoadedChunks(f, owner))} : f \in paths}
    /\ UNCHANGED <<files, user_id, uploaded_details, failed_files, tasks, disk, bcur, bpc,
                   generated_md_path, markdown, ended>>
    /\ UNCHANGED <<storeVars, chatVars, sideButIngest>>

InitIngest ==
    /\ ChatIdle
    /\ RetrIdle
    /\ SideIdle
    /\ LinesIdle
    /\ PromptIdle
    /\ DelIdle
    /\ AddIdle
    /\ MilvusIdle
    /\ HealthIdle
    /\ RerankIdle
    /\ StartIdle
    /\ TurnIdle
    /\ HistIdle
    /\ client = FALSE
    /\ info = [s \in Sessions |-> NoInfo]
    /\ infoTtl = [s \in Sessions |-> NoExpiry]
    /\ msgs = [s \in Sessions |-> <<>>]
    /\ msgsTtl = [s \in Sessions |-> NoExpiry]
    /\ pc = [t \in Tasks |-> "idle"]
    /\ tsid = [t \in Tasks |-> None]
    /\ tjson = [t \in Tasks |-> NoInfo]
    /\ observed = NoRead
    /\ log = [s \in Sessions |-> <<>>]
    /\ files \in Batches(MaxFiles) \ {<<>>}
    /\ user_id \in Owners
    /\ uploaded_details = <<>>
    /\ failed_files = <<>>
    /\ tasks = <<>>
    /\ disk = {}
    /\ index = {}
    /\ bcur = 0
    /\ bpc = "request"
    /\ generated_md_path = None
    /\ markdown = <<>>
    /\ ended = {}
    /\ indexed = FALSE

NextIngest ==
    \/ Upload
    \/ \E md \in MarkdownTexts : Ocr(md)
    \/ Index
    \/ Cleanup
    \/ \E paths \in SUBSET LocalFiles, owner \in Owners : IndexDocuments(paths, owner)

SpecIngest == InitIngest /\ [][NextIngest]_vars

(***************************************************************************)
(* Properties of the knowledge upload.                                     *)
(***************************************************************************)
\* C11: every chunk written to the index by the upload pipeline or by
\* index_documents carries a source field and the user_id_card of the upload
\* it came from, the pieces of the second split included.
C11_ChunksCarryOwner ==
    \A c \in index :
        /\ {"source", "user_id_card"} \subseteq DOMAIN c.doc.metadata
        /\ c.doc.metadata.source = c.from.source
        /\ c.doc.metadata.user_id_card = c.from.owner

\* C11 witness: the index holds a piece made by the second split of a section
\* of an uploaded file, which kept its header, and a chunk written by
\* index_documents for another owner.
C11_Witness ==
    /\ \E c \in index :
          /\ c.doc.page_content[Len(c.doc.page_content)] = "part 2"
          /\ "Header 1" \in DOMAIN c.doc.metadata
          /\ c.from.source = FileName(1)
          /\ c.from.owner = user_id
    /\ \E c \in index :
          /\ c.from.source = <<"manual.pdf">>
          /\ c.from.owner # user_id

\* C12: once a file's pipeline has terminated, on whatever path, neither its
\* uploaded original nor its extracted Markdown file is in scratch storage.
C12_ScratchRemoved ==
    \A k \in ended :
        /\ UploadPath(tasks[k].file) \notin disk
        /\ MdPath(tasks[k].file) \notin disk

\* C33: once an upload request and all of its background tasks have finished,
\* scratch storage holds no artifact of any submitted file, a file whose save
\* failed part-way included.
C33_NoScratchLeftAfterBatch ==
    bpc = "ended" =>
        \A i \in 1..Len(files) : UploadPath(i) \notin disk /\ MdPath(i) \notin disk

ValidFile(f) == Lower(f.ext) \in AllowedExts /\ f.saveOk /\ f.fault = "none"
CorruptFile(f) ==
    Lower(f.ext) \in AllowedExts /\ f.saveOk /\ f.fault \in {"corrupt", "corrupt_late"}
InAccepted(i) == \E j \in 1..Len(uploaded_details) : uploaded_details[j] = FileName(i)
InRejected(i) == \E j \in 1..Len(failed_files) : failed_files[j].filename = FileName(i)

\* C13: for a batch of one corrupt file among valid ones, once the batch is
\* processed the corrupt file is in the rejected list with a reason and not in
\* the accepted list, and every valid file is accepted and indexed.
C13_CorruptFileRejected ==
    /\ bpc \in {"ended", "aborted"}
    /\ \A i \in 1..Len(files) : ValidFile(files[i]) \/ CorruptFile(files[i])
    /\ Cardinality({i \in 1..Len(files) : CorruptFile(files[i])}) = 1
    => \A i \in 1..Len(files) :
           IF CorruptFile(files[i])
           THEN /\ ~InAccepted(i)
                /\ \E j \in 1..Len(failed_files) :
                       failed_files[j].filename = FileName(i) /\ failed_files[j].reason # ""
           ELSE /\ InAccepted(i)
                /\ \E c \in index : c.from.source = FileName(i)

\* C14: a failure in one file's pipeline, at extraction, indexing or cleanup,
\* does not keep the other accepted files' pipelines from running: when the
\* queue runner has stopped, every queued pipeline has run to its end.
C14_PipelinesIndependent ==
    bpc \in {"ended", "aborted"} => ended = 1..Len(tasks)

\* C15: each submitted file is in exactly one of the accepted and the
\* rejected list; an unrecognized extension and a failed save are rejected
\* with their reason and the loop goes on; one pipeline task is queued for
\* each accepted file and none for a rejected one.
C15_AcceptedOrRejected ==
    bpc # "request" =>
        /\ Len(uploaded_details) + Len(failed_files) = Len(files)
        /\ \A i \in 1..Len(files) :
               /\ InAccepted(i) # InRejected(i)
               /\ Lower(files[i].ext) \notin AllowedExts =>
                      \E j \in 1..Len(failed_files) :
                          failed_files[j] = Rejected(FileName(i), "Unsupported format")
               /\ Lower(files[i].ext) \in AllowedExts /\ ~files[i].saveOk =>
                      \E j \in 1..Len(failed_files) :
                          failed_files[j] = Rejected(FileName(i), "Save failed")
               /\ Cardinality({k \in 1..Len(tasks) : tasks[k].original_filename = FileName(i)})
                      = IF InAccepted(i) THEN 1 ELSE 0

\* C15 witness: the first file was rejected for its extension, the second
\* was accepted after it and has its one task queued.
C15_Witness ==
    /\ bpc # "request"
    /\ Len(files) = 2
    /\ failed_files = <<Rejected(FileName(1), "Unsupported format")>>
    /\ uploaded_details = <<FileName(2)>>
    /\ Len(tasks) = 1

\* C25: every message a chat turn has stored in its session's log carries the
\* role user or the role assistant.
C25_StoredRolesUserOrAssistant ==
    \A h \in Handlers : \A i \in 1..Len(appended[h]) :
        appended[h][i].role \in {"user", "assistant"}

\* C26: a turn whose answer was fully generated and whose client then
\* disconnected has its user and assistant messages in the session's log, or
\* the failure to store them is on record.
C26_PersistedDespiteDisconnect ==
    \A h \in Handlers :
        hpc[h] = "aborted" /\ cph[h] = "end" /\ ~llmFailed[h] =>
            \/ appended[h] = TurnMessages(question[h], full_response[h])
            \/ herr[h] # NoError

\* C31: a chat stream holds at most one sources event, every content event
\* comes before it, and nothing but the termination sentinel, directly after
\* it and last, follows it.
C31_SourcesThenSentinel ==
    \A h \in Handlers :
        LET ev == stream[h]
            src == EventsOfType(ev, "sources")
        IN  /\ Cardinality(src) <= 1
            /\ \A i \in src :
                   /\ \A j \in EventsOfType(ev, "content") : j < i
                   /\ \/ i = Len(ev)
                      \/ i + 1 = Len(ev) /\ ev[i + 1] = DoneEvent

(***************************************************************************)
(* Deleting a session: SessionStore.delete_session and the DELETE          *)
(* /sessions/{session_id} endpoint (api/endpoints.py).                     *)
(***************************************************************************)
\* Session deletes requested in one behaviour of SpecDel.
MaxDeletes == 3

\* The message an earlier run left in a stored session.
StoredMessage == ChatMessage("user", 1)

\* delete_session refusing a session that does not exist.
SessionDeleteStrict(connected, data, list) ==
    IF connected /\ (data # NoInfo \/ list # <<>>)
    THEN [deleted |-> TRUE, info |-> NoInfo, msgs |-> <<>>,
          status |-> 200, raised |-> FALSE]
    ELSE [deleted |-> FALSE, info |-> data, msgs |-> list,
          status |-> 404, raised |-> TRUE]

\* delete_session: nothing without a client, else the pipeline DEL, DEL, which
\* removes the keys that exist; the endpoint answers "Session deleted" (200).
SessionDelete(connected, data, list) ==
    IF ~connected
    THEN [deleted |-> FALSE, info |-> data, msgs |-> list,
          status |-> 200, raised |-> FALSE]
    ELSE [deleted |-> TRUE, info |-> NoInfo, msgs |-> <<>>,
          status |-> 200, raised |-> FALSE]

\* DELETE /sessions/{session_id}.
DeleteSessionEndpoint(t, s) ==
    /\ pc[t] = "idle"
    /\ sdel.n < MaxDeletes
    /\ LET r == SessionDelete(client, info[s], msgs[s])
       IN  /\ info' = [info EXCEPT ![s] = r.info]
           /\ infoTtl' = [infoTtl EXCEPT ![s] = IF r.deleted THEN NoExpiry ELSE @]
           /\ msgs' = [msgs EXCEPT ![s] = r.msgs]
           /\ msgsTtl' = [msgsTtl EXCEPT ![s] = IF r.deleted THEN NoExpiry ELSE @]
           /\ log' = [log EXCEPT ![s] = IF r.deleted THEN <<>> ELSE @]
           /\ sdel' = [sid |-> s, n |-> sdel.n + 1, status |-> r.status,
                       raised |-> r.raised]
    /\ observed' = NoRead
    /\ UNCHANGED <<client, pc, tsid, tjson, chatVars, sideButDel>>

\* Redis holds session s1, with one message, from an earlier run; s2 may exist.
InitDel ==
    /\ ChatIdle
    /\ RetrIdle
    /\ SideIdle
    /\ LinesIdle
    /\ PromptIdle
    /\ IngestIdle
    /\ DelIdle
    /\ AddIdle
    /\ MilvusIdle
    /\ HealthIdle
    /\ RerankIdle
    /\ StartIdle
    /\ TurnIdle
    /\ HistIdle
    /\ client = FALSE
    /\ info \in [Sessions -> {NoInfo, [message_count |-> 1]}]
    /\ info["s1"] # NoInfo
    /\ infoTtl = [s \in Sessions |-> IF info[s] = NoInfo THEN NoExpiry ELSE TtlTicks]
    /\ msgs = [s \in Sessions |-> IF info[s] = NoInfo THEN <<>> ELSE <<StoredMessage>>]
    /\ msgsTtl = infoTtl
    /\ pc = [t \in Tasks |-> "idle"]
    /\ tsid = [t \in Tasks |-> None]
    /\ tjson = [t \in Tasks |-> NoInfo]
    /\ observed = NoRead
    /\ log = msgs

NextDel ==
    \/ Connect
    \/ \E t \in Tasks, s \in Sessions : DeleteSessionEndpoint(t, s)
    \/ \E t \in Tasks, s \in Sessions : AddMessage(t, s, MaxPush)
    \/ \E t \in Tasks : UpdGet(t)
    \/ \E t \in Tasks : UpdExec(t)

SpecDel == InitDel /\ [][NextDel]_vars

\* The session's two keys do not exist.
Absent(i, m, s) == i[s] = NoInfo /\ m[s] = <<>>

\* C21: a session delete succeeds without error whether or not the session
\* exists, leaves (on a connected store) both the info record and the message
\* list of that session absent, leaves every other session as it was, and
\* changes nothing at all when the session was already absent; so deleting
\* twice leaves the store as deleting once does.
C21_DeleteIdempotent ==
    [][sdel'.n # sdel.n =>
          LET s == sdel'.sid
          IN  /\ ~sdel'.raised
              /\ sdel'.status = 200
              /\ client' = client
              /\ client => Absent(info', msgs', s)
              /\ \A o \in Sessions \ {s} :
                     /\ info'[o] = info[o]
                     /\ msgs'[o] = msgs[o]
                     /\ infoTtl'[o] = infoTtl[o]
                     /\ msgsTtl'[o] = msgsTtl[o]
              /\ Absent(info, msgs, s) =>
                     UNCHANGED <<info, infoTtl, msgs, msgsTtl>>]_vars

\* C21 witness: session s1, which held a message, has been deleted on a
\* connected store, session s2 is still stored, and the last delete, again of
\* s1, was answered with success.
C21_Witness ==
    /\ client
    /\ sdel.n >= 2
    /\ sdel.sid = "s1"
    /\ sdel.status = 200
    /\ Absent(info, msgs, "s1")
    /\ ~Absent(info, msgs, "s2")

(***************************************************************************)
(* What add_message tells its caller (storage/session_store.py): the call  *)
(* returns None, or the exception of a failed store call escapes it.       *)
(***************************************************************************)
\* add_message calls made in one behaviour of SpecAdd.
MaxAdds == 3

\* How the store answers the call's pipeline: it executes it, or it fails.
StoreFaults == {"none", "execute"}

\* add_message: without a client a warning is logged and the call returns;
\* a failing pipeline.execute() raises out of the call with nothing pushed.
AddMessageOutcome(connected, fault) ==
    IF ~connected THEN [persisted |-> FALSE, raised |-> FALSE]
    ELSE IF fault = "execute" THEN [persisted |-> FALSE, raised |-> TRUE]
    ELSE [persisted |-> TRUE, raised |-> FALSE]

\* One add_message call up to the return of its first pipeline.
AddMessageCall(t, s, fault) ==
    /\ pc[t] = "idle"
    /\ sadd.n < MaxAdds
    /\ Len(log[s]) < MaxPush
    /\ info[s].message_count < MaxPush
    /\ \A u \in Tasks : tjson[u].message_count < MaxPush
    /\ LET m == ChatMessage(RoleOf(Len(log[s]) + 1), Len(log[s]) + 1)
           r == AddMessageOutcome(client, fault)
       IN  /\ IF r.persisted
              THEN /\ msgs' = [msgs EXCEPT ![s] = PushAndTrim(@, m)]
                   /\ log' = [log EXCEPT ![s] = Append(@, m)]
                   /\ pc' = [pc EXCEPT ![t] = "upd_get"]
                   /\ tsid' = [tsid EXCEPT ![t] = s]
              ELSE UNCHANGED <<msgs, log, pc, tsid>>
           /\ sadd' = [sid |-> s, n |-> sadd.n + 1, persisted |-> r.persisted,
                       raised |-> r.raised]
    /\ UNCHANGED <<client, info, infoTtl, msgsTtl, tjson>>
    /\ observed' = NoRead
    /\ UNCHANGED <<chatVars, sideButAdd>>

\* The service has started; Redis holds session s1 from an earlier request.
InitAdd ==
    /\ ChatIdle
    /\ RetrIdle
    /\ SideIdle
    /\ LinesIdle
    /\ PromptIdle
    /\ IngestIdle
    /\ DelIdle
    /\ AddIdle
    /\ MilvusIdle
    /\ HealthIdle
    /\ RerankIdle
    /\ StartIdle
    /\ TurnIdle
    /\ HistIdle
    /\ client = FALSE
    /\ info = [s \in Sessions |-> IF s = "s1" THEN [message_count |-> 0] ELSE NoInfo]
    /\ infoTtl = [s \in Sessions |-> IF s = "s1" THEN TtlTicks ELSE NoExpiry]
    /\ msgs = [s \in Sessions |-> <<>>]
    /\ msgsTtl = [s \in Sessions |-> NoExpiry]
    /\ pc = [t \in Tasks |-> "idle"]
    /\ tsid = [t \in Tasks |-> None]
    /\ tjson = [t \in Tasks |-> NoInfo]
    /\ observed = NoRead
    /\ log = [s \in Sessions |-> <<>>]

NextAdd ==
    \/ Connect
    \/ \E t \in Tasks, s \in Sessions, fault \in StoreFaults : AddMessageCall(t, s, fault)
    \/ \E t \in Tasks : UpdGet(t)
    \/ \E t \in Tasks : UpdExec(t)

SpecAdd == InitAdd /\ [][NextAdd]_vars

\* C22: an add_message call that did not persist its message (no client, or
\* the store call failed) raised an error to its caller.
C22_UnsavedIsReported ==
    sadd.n > 0 /\ ~sadd.persisted => sadd.raised

(***************************************************************************)
(* The process-wide Milvus connection and store handle                     *)
(* (storage/vector_store.py): connect_milvus, under the asyncio lock, and  *)
(* the lazily built vector_store property, as used by concurrent           *)
(* index_markdown_content calls.                                           *)
(***************************************************************************)
\* index_markdown_content calls started in one behaviour of SpecMilvus.
MaxUses == 4

\* MilvusVectorStore.alias.
Alias == "default"
\* connections.connect succeeds, is refused, or succeeds and the index check
\* that follows it (utility.has_collection) raises.
ConnectOutcomes == {"ok", "refused", "index_check"}
\* The Milvus(...) constructor returns a handle or raises.
StoreOutcomes == {"ok", "fail"}

\* connections.has_connection never finding the alias.
HasConnectionNever(registry, alias) == FALSE

\* connections.has_connection(alias).
HasConnection(registry, alias) == alias \in registry

\* index_markdown_content is called and reaches connect_milvus.
IndexMarkdownContent(t) ==
    /\ mpc[t] = "idle"
    /\ muses < MaxUses
    /\ mpc' = [mpc EXCEPT ![t] = "acquire"]
    /\ muses' = muses + 1
    /\ UNCHANGED <<conns, vstore, mlock, nconn, nstore, mused, mfail>>
    /\ UNCHANGED <<storeVars, chatVars, sideButMilvus>>

\* connect_milvus: async with self._lock.
AcquireLock(t) ==
    /\ mpc[t] = "acquire"
    /\ mlock = None
    /\ mlock' = t
    /\ mpc' = [mpc EXCEPT ![t] = "locked"]
    /\ UNCHANGED <<conns, vstore, nconn, nstore, mused, muses, mfail>>
    /\ UNCHANGED <<storeVars, chatVars, sideButMilvus>>

\* connect_milvus under the lock: return if the alias is conns, else
\* connect and check the index; an exception is raised to the caller, whose
\* pipeline ends.  The lock is released on every way out.
ConnectMilvus(t, outcome) ==
    /\ mpc[t] = "locked"
    /\ mlock' = None
    /\ IF HasConnection(conns, Alias)
       THEN /\ mpc' = [mpc EXCEPT ![t] = "split"]
            /\ UNCHANGED <<conns, nconn, mfail>>
       ELSE /\ conns' = IF outcome = "refused" THEN conns
                             ELSE conns \cup {Alias}
            /\ nconn' = IF outcome = "refused" THEN nconn ELSE nconn + 1
            /\ mfail' = IF outcome = "refused" THEN mfail + 1 ELSE mfail
            /\ mpc' = [mpc EXCEPT ![t] = IF outcome = "ok" THEN "split" ELSE "idle"]
    /\ UNCHANGED <<vstore, nstore, mused, muses>>
    /\ UNCHANGED <<storeVars, chatVars, sideButMilvus>>

\* The rest of index_markdown_content: the split, then
\* self.vector_store.add_documents, whose property builds the handle when
\* _store is None.
AddDocuments(t, outcome) ==
    /\ mpc[t] = "split"
    /\ IF vstore = NoStore
       THEN /\ vstore' = IF outcome = "ok" THEN nstore + 1 ELSE NoStore
            /\ nstore' = IF outcome = "ok" THEN nstore + 1 ELSE nstore
       ELSE UNCHANGED <<vstore, nstore>>
    /\ mused' = [mused EXCEPT ![t] = vstore']
    /\ mpc' = [mpc EXCEPT ![t] = "idle"]
    /\ UNCHANGED <<conns, mlock, nconn, muses, mfail>>
    /\ UNCHANGED <<storeVars, chatVars, sideButMilvus>>

InitMilvus ==
    /\ ChatIdle
    /\ RetrIdle
    /\ SideIdle
    /\ LinesIdle
    /\ PromptIdle
    /\ IngestIdle
    /\ DelIdle
    /\ AddIdle
    /\ MilvusIdle
    /\ HealthIdle
    /\ RerankIdle
    /\ StartIdle
    /\ TurnIdle
    /\ HistIdle
    /\ client = FALSE
    /\ info = [s \in Sessions |-> NoInfo]
    /\ infoTtl = [s \in Sessions |-> NoExpiry]
    /\ msgs = [s \in Sessions |-> <<>>]
    /\ msgsTtl = [s \in Sessions |-> NoExpiry]
    /\ pc = [t \in Tasks |-> "idle"]
    /\ tsid = [t \in Tasks |-> None]
    /\ tjson = [t \in Tasks |-> NoInfo]
    /\ observed = NoRead
    /\ log = [s \in Sessions |-> <<>>]

NextMilvus ==
    \/ \E t \in Tasks : IndexMarkdownContent(t)
    \/ \E t \in Tasks : AcquireLock(t)
    \/ \E t \in Tasks, outcome \in ConnectOutcomes : ConnectMilvus(t, outcome)
    \/ \E t \in Tasks, outcome \in StoreOutcomes : AddDocuments(t, outcome)

SpecMilvus == InitMilvus /\ [][NextMilvus]_vars

\* C23: under every interleaving of ingestion tasks the connection is
\* established at most once and the store handle is built at most once, every
\* write goes through that one handle, and while no attempt has succeeded the
\* connection and the handle stay unset, so that a later call tries again.
C23_InitializedAtMostOnce ==
    /\ nconn <= 1
    /\ nstore <= 1
    /\ HasConnection(conns, Alias) <=> nconn = 1
    /\ vstore # NoStore <=> nstore = 1
    /\ \A t \in Tasks : mused[t] # NoStore => mused[t] = vstore

\* C23 witness: a connection attempt failed, a later call conns, and both
\* tasks have written through the same handle.
C23_Witness ==
    /\ mfail >= 1
    /\ nconn = 1
    /\ \A t \in Tasks : mused[t] # NoStore /\ mused[t] = vstore
    /\ muses >= 3

(***************************************************************************)
(* The health reports: GET /health (main.py) and GET <prefix>/health       *)
(* (api/endpoints.py).  A report is the aggregate status, the components   *)
(* it names with the readiness it gives each, and (history) the readiness  *)
(* of the three dependencies when it was made.                             *)
(***************************************************************************)
\* Health reports made in one behaviour of SpecHealth.
MaxReports == 5


\* GET /health: redis_ok, milvus_ok and llm_ok are reported one by one; the
\* status is "healthy" if (redis_ok and milvus_ok).
SystemHealth(redis_ok, milvus_ok, llm_ok) ==
    [status |-> IF redis_ok /\ milvus_ok THEN "healthy" ELSE "degraded",
     components |-> [d \in Dependencies |->
                        IF d = "store" THEN redis_ok
                        ELSE IF d = "index" THEN milvus_ok
                        ELSE llm_ok]]

\* GET <prefix>/health: HealthResponse(status, version, model_ready); the
\* status is "healthy" if (model_ready and rag_ready).
ApiHealth(model_ready, rag_ready) ==
    [status |-> IF model_ready /\ rag_ready THEN "healthy" ELSE "degraded",
     components |-> [d \in {"inference"} |-> model_ready]]

\* What the dependencies were when a report was made.
Readiness(redis_ok, milvus_ok, llm_ok) ==
    [d \in Dependencies |->
        IF d = "store" THEN redis_ok ELSE IF d = "index" THEN milvus_ok ELSE llm_ok]

\* LLMService.health_check at startup: the probe's answer is kept in is_ready.
LlmHealthCheck(up) ==
    /\ hreport.n = 0
    /\ is_ready' = up
    /\ UNCHANGED hreport
    /\ UNCHANGED <<storeVars, chatVars, sideButHealth>>

\* GET /health; milvus_ok is whether rag_service.collection is set.
SystemHealthCheck(milvus_ok) ==
    /\ hreport.n < MaxReports
    /\ LET r == SystemHealth(client, milvus_ok, is_ready)
       IN  hreport' = [n |-> hreport.n + 1, endpoint |-> "/health",
                       status |-> r.status, components |-> r.components,
                       ready |-> Readiness(client, milvus_ok, is_ready)]
    /\ UNCHANGED is_ready
    /\ UNCHANGED <<storeVars, chatVars, sideButHealth>>

\* GET <prefix>/health: probes the inference endpoint, reads
\* rag_service.collection.
ApiHealthCheck(up, rag_ready) ==
    /\ hreport.n < MaxReports
    /\ is_ready' = up
    /\ LET r == ApiHealth(up, rag_ready)
       IN  hreport' = [n |-> hreport.n + 1, endpoint |-> "/api/health",
                       status |-> r.status, components |-> r.components,
                       ready |-> Readiness(client, rag_ready, up)]
    /\ UNCHANGED <<storeVars, chatVars, sideButHealth>>

InitHealth ==
    /\ ChatIdle
    /\ RetrIdle
    /\ SideIdle
    /\ LinesIdle
    /\ PromptIdle
    /\ IngestIdle
    /\ DelIdle
    /\ AddIdle
    /\ MilvusIdle
    /\ HealthIdle
    /\ RerankIdle
    /\ StartIdle
    /\ TurnIdle
    /\ HistIdle
    /\ client = FALSE
    /\ info = [s \in Sessions |-> NoInfo]
    /\ infoTtl = [s \in Sessions |-> NoExpiry]
    /\ msgs = [s \in Sessions |-> <<>>]
    /\ msgsTtl = [s \in Sessions |-> NoExpiry]
    /\ pc = [t \in Tasks |-> "idle"]
    /\ tsid = [t \in Tasks |-> None]
    /\ tjson = [t \in Tasks |-> NoInfo]
    /\ observed = NoRead
    /\ log = [s \in Sessions |-> <<>>]

NextHealth ==
    \/ Connect
    \/ \E up \in BOOLEAN : LlmHealthCheck(up)
    \/ \E milvus_ok \in BOOLEAN : SystemHealthCheck(milvus_ok)
    \/ \E up \in BOOLEAN, rag_ready \in BOOLEAN : ApiHealthCheck(up, rag_ready)

SpecHealth == InitHealth /\ [][NextHealth]_vars

\* C24: a health report gives the readiness of the inference endpoint, the
\* vector index and the session store each, as it is, and its status is
\* "degraded" whenever one of the three is unavailable.
C24_DegradedWhenAnyDown ==
    hreport.n > 0 =>
        /\ DOMAIN hreport.components = Dependencies
        /\ \A d \in DOMAIN hreport.components : hreport.components[d] = hreport.ready[d]
        /\ (\E d \in Dependencies : ~hreport.ready[d]) => hreport.status = "degraded"

(***************************************************************************)
(* RerankService.rerank (services/rerank_service.py).  A candidate is a    *)
(* document with the score the cross-encoder gives it for the query;       *)
(* a returned document carries metadata["relevance_score"].                *)
(***************************************************************************)
\* Candidates handed to one rerank call.
MaxCandidates == 6
\* getattr(settings, "RAG_RERANK_TOP_K", 5): Settings declares no such field.
RerankTopK == 5
\* Settings.RAG_TOP_K, the k of the search.
RagTopK == 4

\* The scores model.predict gives.
Scores == {1, 2}

Candidate(id, score) == [id |-> id, score |-> score]

\* The candidate lists of length n: document i of the search with any score.
RECURSIVE CandidateLists(_)
CandidateLists(n) ==
    IF n = 0 THEN {<<>>}
    ELSE LET shorter == CandidateLists(n - 1)
         IN  shorter \cup {Append(l, Candidate(n, sc)) :
                               l \in {x \in shorter : Len(x) = n - 1}, sc \in Scores}

\* sorted(..., reverse=True): stable, so equal scores keep their input order.
RECURSIVE SortedDescending(_)
SortedDescending(seq) ==
    IF seq = <<>> THEN <<>>
    ELSE LET n    == Len(seq)
             head == SortedDescending(SubSeq(seq, 1, n - 1))
             x    == seq[n]
             k    == Cardinality({i \in 1..Len(head) : head[i].score >= x.score})
         IN  SubSeq(head, 1, k) \o <<x>> \o SubSeq(head, k + 1, Len(head))

\* The document returned for a scored candidate.
Scored(c) == [id |-> c.id, relevance_score |-> c.score]

\* rerank: score, sort from high to low, keep sorted_docs[:top_k].
RerankDocs(docs, top_k) ==
    IF docs = <<>> THEN <<>>
    ELSE LET sorted == SortedDescending(docs)
             kept   == SubSeq(sorted, 1, IF Len(sorted) < top_k THEN Len(sorted) ELSE top_k)
         IN  [i \in 1..Len(kept) |-> Scored(kept[i])]

\* rerank(query, docs) is called with the candidates of a search.
RerankCall(docs) ==
    /\ kpc = "none"
    /\ rcands' = docs
    /\ kpc' = "called"
    /\ UNCHANGED <<rout, rcalls>>
    /\ UNCHANGED <<storeVars, chatVars, sideButRerank>>

\* rerank runs: the model is asked only for a non-empty list.
Rerank ==
    /\ kpc = "called"
    /\ rout' = RerankDocs(rcands, RerankTopK)
    /\ rcalls' = IF rcands = <<>> THEN rcalls ELSE rcalls + 1
    /\ kpc' = "returned"
    /\ UNCHANGED rcands
    /\ UNCHANGED <<storeVars, chatVars, sideButRerank>>

InitRerank ==
    /\ ChatIdle
    /\ RetrIdle
    /\ SideIdle
    /\ LinesIdle
    /\ PromptIdle
    /\ IngestIdle
    /\ DelIdle
    /\ AddIdle
    /\ MilvusIdle
    /\ HealthIdle
    /\ RerankIdle
    /\ StartIdle
    /\ TurnIdle
    /\ HistIdle
    /\ client = FALSE
    /\ info = [s \in Sessions |-> NoInfo]
    /\ infoTtl = [s \in Sessions |-> NoExpiry]
    /\ msgs = [s \in Sessions |-> <<>>]
    /\ msgsTtl = [s \in Sessions |-> NoExpiry]
    /\ pc = [t \in Tasks |-> "idle"]
    /\ tsid = [t \in Tasks |-> None]
    /\ tjson = [t \in Tasks |-> NoInfo]
    /\ observed = NoRead
    /\ log = [s \in Sessions |-> <<>>]

NextRerank ==
    \/ \E docs \in CandidateLists(MaxCandidates) : RerankCall(docs)
    \/ Rerank

SpecRerank == InitRerank /\ [][NextRerank]_vars

\* What rerank returns for the candidates it was given: min(len, top_k) of
\* them, the best scored, from high to low, each with its score; nothing, and
\* no model call, for no candidates.
RerankResultRight ==
    /\ Len(rout) = Min(Len(rcands), RerankTopK)
    /\ \A i \in 1..Len(rout) :
           \E j \in 1..Len(rcands) : rout[i] = Scored(rcands[j])
    /\ \A i, j \in 1..Len(rout) : i # j => rout[i].id # rout[j].id
    /\ \A i \in 1..Len(rout) - 1 : rout[i].relevance_score >= rout[i + 1].relevance_score
    /\ \A j \in 1..Len(rcands) :
           (\A i \in 1..Len(rout) : rout[i].id # rcands[j].id) =>
               \A i \in 1..Len(rout) : rout[i].relevance_score >= rcands[j].score
    /\ rcands = <<>> => rout = <<>> /\ rcalls = 0

\* C28: rerank returns exactly min(len(candidates), top_k) of its input
\* documents, those with the highest scores, in non-increasing score order,
\* each with its relevance score, returns nothing and asks no model for an
\* empty list, and its final count is smaller than the search count.
C28_RerankTopK ==
    kpc = "returned" => RerankResultRight /\ RerankTopK < RagTopK

(***************************************************************************)
(* Startup and session preparation: lifespan (main.py), _streaming_handler *)
(* up to _prepare_session (api/endpoints.py) and create_session            *)
(* (storage/session_store.py), with dependencies that may be down.         *)
(***************************************************************************)
\* Chat requests made in one behaviour of SpecStart.
MaxRequests == 2

\* What sideButStart leaves alone, except llm_service.is_ready.
sideButStartReady ==
    <<retrVars, auxVars, readVars, lineVars, promptVars, ingestVars, delVars, addVars,
      milvusVars, hreport, rerankVars, turnVars, histVars>>

\* lifespan: session_store.connect(); its exception is logged, client stays None.
LifespanConnect ==
    /\ phase = "connect"
    /\ client' = deps["store"]
    /\ phase' = "rag"
    /\ observed' = NoRead
    /\ UNCHANGED <<info, infoTtl, msgs, msgsTtl, pc, tsid, tjson, log>>
    /\ UNCHANGED <<deps, rag_ok, req, chatVars, sideButStart>>

\* lifespan: rag_service.initialize(); its exception is logged.
LifespanRag ==
    /\ phase = "rag"
    /\ rag_ok' = deps["index"]
    /\ phase' = "llm"
    /\ UNCHANGED <<deps, req, storeVars, chatVars, sideButStart>>

\* lifespan: llm_service.health_check(), which keeps its answer in is_ready;
\* then the yield: the application serves.
LifespanLlm ==
    /\ phase = "llm"
    /\ is_ready' = deps["inference"]
    /\ phase' = "serving"
    /\ UNCHANGED <<deps, rag_ok, req, storeVars, chatVars, sideButStartReady>>

\* _streaming_handler up to get_history: 503 without a ready model; then
\* _prepare_session, whose create_session raises ConnectionError without a
\* client (get_session returns None there, so both branches reach it), an
\* exception no caller catches.
PrepareOutcome(ready, connected) ==
    IF ~ready THEN "http_error"
    ELSE IF ~connected THEN "unhandled"
    ELSE "stream"

\* A chat request with session id sid (None: a new uuid, here session s).
ChatRequest(sid, s) ==
    /\ phase = "serving"
    /\ req.n < MaxRequests
    /\ IF sid = None THEN info[s] = NoInfo ELSE s = sid
    /\ LET out == PrepareOutcome(is_ready, client)
           create == out = "stream" /\ info[s] = NoInfo
       IN  /\ req' = [n |-> req.n + 1, sid |-> sid, store_ok |-> client, outcome |-> out]
           /\ info' = IF create THEN [info EXCEPT ![s] = [message_count |-> 0]] ELSE info
           /\ infoTtl' = IF create THEN [infoTtl EXCEPT ![s] = TtlTicks] ELSE infoTtl
           /\ msgs' = IF create THEN [msgs EXCEPT ![s] = <<>>] ELSE msgs
           /\ msgsTtl' = IF create THEN [msgsTtl EXCEPT ![s] = NoExpiry] ELSE msgsTtl
           /\ log' = IF create THEN [log EXCEPT ![s] = <<>>] ELSE log
    /\ observed' = NoRead
    /\ UNCHANGED <<client, pc, tsid, tjson>>
    /\ UNCHANGED <<deps, phase, rag_ok, chatVars, sideButStart>>

\* The process starts with any of the dependencies up or down.
InitStart ==
    /\ ChatIdle
    /\ RetrIdle
    /\ SideIdle
    /\ LinesIdle
    /\ PromptIdle
    /\ IngestIdle
    /\ DelIdle
    /\ AddIdle
    /\ MilvusIdle
    /\ HealthIdle
    /\ RerankIdle
    /\ TurnIdle
    /\ HistIdle
    /\ deps \in [Dependencies -> BOOLEAN]
    /\ phase = "connect"
    /\ rag_ok = FALSE
    /\ req = NoRequest
    /\ client = FALSE
    /\ info \in [Sessions -> {NoInfo, [message_count |-> 0]}]
    /\ infoTtl = [s \in Sessions |-> IF info[s] = NoInfo THEN NoExpiry ELSE TtlTicks]
    /\ msgs = [s \in Sessions |-> <<>>]
    /\ msgsTtl = [s \in Sessions |-> NoExpiry]
    /\ pc = [t \in Tasks |-> "idle"]
    /\ tsid = [t \in Tasks |-> None]
    /\ tjson = [t \in Tasks |-> NoInfo]
    /\ observed = NoRead
    /\ log = [s \in Sessions |-> <<>>]

NextStart ==
    \/ LifespanConnect
    \/ LifespanRag
    \/ LifespanLlm
    \/ \E sid \in Sessions \cup {None}, s \in Sessions : ChatRequest(sid, s)

SpecStart == InitStart /\ [][NextStart]_vars

\* C32: startup goes on to the serving state whatever dependency fails, and a
\* chat request made while the session store is unavailable is answered with
\* an error event or a deliberate HTTP error, never an unhandled exception.
C32_FailuresAreTyped ==
    /\ phase \in {"connect", "rag", "llm", "serving"}
    /\ req.n > 0 /\ ~req.store_ok => req.outcome \in {"error_event", "http_error"}

(***************************************************************************)
(* SpecTurn: two chat requests as the session store sees them.  Each runs  *)
(* _prepare_session, streams (the store is left alone meanwhile), then     *)
(* saves the user message and the answer with add_message; sessions are    *)
(* deleted and keys expire at any point in between.                        *)
(***************************************************************************)
\* _prepare_session with a session id: get_or_create_session's GET.  A found
\* session is returned untouched, a missing one goes on to create_session.
PrepareSession(t, s) ==
    /\ tpos[t] = "none"
    /\ pc[t] = "idle"
    /\ client
    /\ tpos' = [tpos EXCEPT ![t] = "prepared"]
    /\ tsid' = [tsid EXCEPT ![t] = s]
    /\ pc' = [pc EXCEPT ![t] = IF info[s] = NoInfo THEN "create" ELSE "idle"]
    /\ observed' = NoRead
    /\ UNCHANGED <<client, info, infoTtl, msgs, msgsTtl, tjson, log>>
    /\ UNCHANGED <<chatVars, sideButTurn>>

\* The role stream_generator saves next, and the position after saving it.
TurnRole(pos) == IF pos = "prepared" THEN "human" ELSE "ai"

TurnAfter(pos) == IF pos = "prepared" THEN "human" ELSE "ai"

\* stream_generator: add_message(sid, "human", message), and after it has
\* returned add_message(sid, "ai", full_response); each is the RPUSH/LTRIM
\* pipeline followed by update_session_activity.  The content names the turn.
TurnSaveMessage(t) ==
    LET s == tsid[t]
        m == ChatMessage(TurnRole(tpos[t]), t)
    IN  /\ tpos[t] \in {"prepared", "human"}
        /\ pc[t] = "idle"
        /\ client
        /\ msgs' = [msgs EXCEPT ![s] = PushAndTrim(@, m)]
        /\ log' = [log EXCEPT ![s] = Append(@, m)]
        /\ pc' = [pc EXCEPT ![t] = "upd_get"]
        /\ tpos' = [tpos EXCEPT ![t] = TurnAfter(@)]
        /\ observed' = NoRead
        /\ UNCHANGED <<client, info, infoTtl, msgsTtl, tsid, tjson>>
        /\ UNCHANGED <<chatVars, sideButTurn>>

InitTurn ==
    /\ ChatIdle
    /\ RetrIdle
    /\ SideIdle
    /\ LinesIdle
    /\ PromptIdle
    /\ IngestIdle
    /\ DelIdle
    /\ AddIdle
    /\ MilvusIdle
    /\ HealthIdle
    /\ RerankIdle
    /\ StartIdle
    /\ TurnIdle
    /\ HistIdle
    /\ client = TRUE
    /\ info \in [Sessions -> {NoInfo, [message_count |-> 0]}]
    /\ infoTtl = [s \in Sessions |-> IF info[s] = NoInfo THEN NoExpiry ELSE TtlTicks]
    /\ msgs = [s \in Sessions |-> <<>>]
    /\ msgsTtl = [s \in Sessions |-> NoExpiry]
    /\ pc = [t \in Tasks |-> "idle"]
    /\ tsid = [t \in Tasks |-> None]
    /\ tjson = [t \in Tasks |-> NoInfo]
    /\ observed = NoRead
    /\ log = [s \in Sessions |-> <<>>]

NextTurn ==
    \/ \E t \in Tasks, s \in Sessions : PrepareSession(t, s)
    \/ \E t \in Tasks : CreateExec(t)
    \/ \E t \in Tasks : TurnSaveMessage(t)
    \/ \E t \in Tasks : UpdGet(t)
    \/ \E t \in Tasks : UpdExec(t)
    \/ \E t \in Tasks, s \in Sessions : DeleteSession(t, s)
    \/ Tick

SpecTurn == InitTurn /\ [][NextTurn]_vars

\* C34: a session's message list exists only if its info record exists,
\* whatever is deleted or expires while a chat turn is in flight.
C34_ListOnlyWithInfo ==
    \A s \in Sessions : msgs[s] # <<>> => info[s] # NoInfo

\* C35: get_or_create_session never destroys history: neither its lookup nor
\* the create_session it goes on to removes a message from the list.
C35_CreateKeepsHistory ==
    [][\A t \in Tasks :
          (tpos[t] = "none" \/ pc[t] = "create") /\ (tpos'[t] = "prepared" /\ pc'[t] = "idle")
              => /\ Len(msgs'[tsid'[t]]) >= Len(msgs[tsid'[t]])
                 /\ info[tsid'[t]] # NoInfo => info'[tsid'[t]] = info[tsid'[t]]]_vars

\* C36: when two chat turns run on the same session the stored list keeps
\* each turn together: an answer whose turn's user message is in the list
\* stands directly after that user message.
C36_TurnsStayTogether ==
    \A s \in Sessions : \A i \in 1..Len(msgs[s]) :
        LET m == msgs[s][i]
        IN  (m.role = "ai" /\ \E j \in 1..Len(msgs[s]) : msgs[s][j] = ChatMessage("human", m.content))
                => i > 1 /\ msgs[s][i - 1] = ChatMessage("human", m.content)

(***************************************************************************)
(* SpecHist: the two conversions of a stored log into prompt messages,     *)
(* SessionStore.get_history (storage/session_store.py) and                 *)
(* get_history_messages with format_history_for_prompt (core/chains.py),   *)
(* on the logs the chat paths write.                                       *)
(***************************************************************************)
\* Turns in a stored log.
MaxTurns == 6
\* settings.HISTORY_LIMIT, the limit of get_history_messages.
ChainHistoryLimit == 10

\* The roles a chat path stores a turn under: the streaming endpoint saves
\* "human" and "ai", astream_rag saves "user" and "assistant".
PathRoles(path) ==
    IF path = "stream" THEN <<"human", "ai">> ELSE <<"user", "assistant">>

\* The logs of n turns at most, each written by one of the two paths.
RECURSIVE TurnLogs(_)
TurnLogs(n) ==
    IF n = 0 THEN {<<>>}
    ELSE LET shorter == TurnLogs(n - 1)
         IN  shorter \cup
                 {l \o <<ChatMessage(PathRoles(p)[1], Len(l) + 1),
                         ChatMessage(PathRoles(p)[2], Len(l) + 2)>> :
                      l \in {x \in shorter : Len(x) = 2 * (n - 1)},
                      p \in {"stream", "rag"}}

\* format_history_for_prompt: "user" becomes a human message, "assistant" an
\* AI message, a message of any other role is left out.
FormatHistoryForPrompt(hist) ==
    LET kept == SelectSeq(hist, LAMBDA m : m.role \in {"user", "assistant"})
    IN  [i \in 1..Len(kept) |->
            Lc(IF kept[i].role = "user" THEN "human" ELSE "ai", kept[i].content)]

\* session_store.get_history(session_id), as the streaming handler calls it.
ConvertViaStore ==
    /\ "store" \notin cdone
    /\ viaStore' = GetHistory(slog)
    /\ cdone' = cdone \cup {"store"}
    /\ UNCHANGED <<slog, viaChain, storeVars, chatVars, sideButHist>>

\* get_rag_prompt_messages, step 1: get_history_messages reads the last
\* HISTORY_LIMIT messages and format_history_for_prompt converts them.
ConvertViaChain ==
    /\ "chain" \notin cdone
    /\ viaChain' = FormatHistoryForPrompt(LRange(slog, -ChainHistoryLimit, -1))
    /\ cdone' = cdone \cup {"chain"}
    /\ UNCHANGED <<slog, viaStore, storeVars, chatVars, sideButHist>>

InitHist ==
    /\ ChatIdle
    /\ RetrIdle
    /\ SideIdle
    /\ LinesIdle
    /\ PromptIdle
    /\ IngestIdle
    /\ DelIdle
    /\ AddIdle
    /\ MilvusIdle
    /\ HealthIdle
    /\ RerankIdle
    /\ StartIdle
    /\ TurnIdle
    /\ client = TRUE
    /\ info = [s \in Sessions |-> NoInfo]
    /\ infoTtl = [s \in Sessions |-> NoExpiry]
    /\ msgs = [s \in Sessions |-> <<>>]
    /\ msgsTtl = [s \in Sessions |-> NoExpiry]
    /\ pc = [t \in Tasks |-> "idle"]
    /\ tsid = [t \in Tasks |-> None]
    /\ tjson = [t \in Tasks |-> NoInfo]
    /\ observed = NoRead
    /\ log = [s \in Sessions |-> <<>>]
    /\ slog \in TurnLogs(MaxTurns)
    /\ viaStore = <<>>
    /\ viaChain = <<>>
    /\ cdone = {}

NextHist == ConvertViaStore \/ ConvertViaChain

SpecHist == InitHist /\ [][NextHist]_vars

\* The prompt messages a stored suffix stands for: one per stored message,
\* in order, a user turn as a human message, an answer as an AI message.
PromptMessagesOf(suffix) ==
    [i \in 1..Len(suffix) |->
        Lc(IF suffix[i].role \in {"user", "human"} THEN "human" ELSE "ai",
           suffix[i].content)]

\* C39: for every log the chat paths write, get_history and
\* format_history_for_prompt each return one prompt message per stored
\* message of their bounded suffix, in order, user turns as human messages
\* and assistant turns as AI messages.
C39_HistoryConversionLossless ==
    /\ "store" \in cdone => viaStore = PromptMessagesOf(LRange(slog, -HistoryLimit, -1))
    /\ "chain" \in cdone => viaChain = PromptMessagesOf(LRange(slog, -ChainHistoryLimit, -1))

====
